---- MODULE Spec2Model ----
(***************************************************************************)
(* Model of the listing-extraction pipeline of the deal analyzer:           *)
(*   - scrape_with_jina (src/app.py), the reader-proxy backend;             *)
(*   - PropertyExtractor (src/scrapling_extractor.py), the direct backend   *)
(*     that extract_url races against it;                                   *)
(*   - extract_url (src/app.py), the orchestrator: a two-worker thread      *)
(*     pool, an as_completed loop with a 25 s timeout, the merge and the    *)
(*     response.                                                            *)
(*                                                                          *)
(* Text.  A page is a sequence of tokens; a token is a short fragment of    *)
(* text on which every regular expression of the source either matches as   *)
(* a whole or not at all (a postcode, "3 bed", a pound amount, a word or    *)
(* phrase of a fixed vocabulary).  Postcodes are kept as sequences of       *)
(* characters, so that the grammar checks, the space insertion and the      *)
(* area lookup are computed on characters as the code computes them.  The   *)
(* token "gap" stands for a neutral stretch longer than 3000 characters:    *)
(* tokens separated by no gap are less than 300 characters apart (the       *)
(* context window of the scorers), and a token after a gap is beyond every  *)
(* prefix the code cuts (text[:500], text[:1200], idx < 3000).              *)
(*                                                                          *)
(* Python values.  None is the empty sequence and a value v is <<v>>, for   *)
(* the fields of a record as for the record a backend returns.              *)
(***************************************************************************)
EXTENDS Integers, Sequences, FiniteSets, TLC

(***************************************************************************)
(* Bounds                                                                  *)
(***************************************************************************)
\* tokens in the title of a page drawn for a backend
MaxTitleLen == 1
\* tokens in the body of a page drawn for a backend
MaxBodyLen == 2

(***************************************************************************)
(* Python values                                                           *)
(***************************************************************************)
None == <<>>
Some(v) == <<v>>

Min(S) == CHOOSE i \in S : \A j \in S : i <= j

(***************************************************************************)
(* Characters and the postcode grammar                                     *)
(***************************************************************************)
Letters == {"A","B","C","D","E","F","G","H","I","J","K","L","M",
            "N","O","P","Q","R","S","T","U","V","W","X","Y","Z"}
Digits == {"0","1","2","3","4","5","6","7","8","9"}
\* the characters \s matches that a page fragment can hold inside a postcode
Whitespace == {" ", "\t"}

\* [A-Z]{1,2}\d[A-Z\d]?<sep>\d[A-Z]{2} matched against the whole of s, where
\* <sep> is one character of seps, or (optional) nothing
MatchesGrammar(s, seps, optional) ==
    \E a \in {1, 2}, b \in {0, 1}, sp \in (IF optional THEN {0, 1} ELSE {1}) :
        /\ Len(s) = a + 1 + b + sp + 3
        /\ \A i \in 1..a : s[i] \in Letters
        /\ s[a + 1] \in Digits
        /\ (b = 1 => s[a + 2] \in Letters \cup Digits)
        /\ (sp = 1 => s[a + b + 2] \in seps)
        /\ s[a + b + sp + 2] \in Digits
        /\ s[a + b + sp + 3] \in Letters
        /\ s[a + b + sp + 4] \in Letters

\* postcode_pattern of scrape_with_jina, postcode_re of _extract_postcode
postcode_pattern(s) == MatchesGrammar(s, Whitespace, TRUE)

VALID_AREAS == {
    <<"A","B">>, <<"A","L">>, <<"B">>, <<"B","A">>, <<"B","B">>, <<"B","D">>,
    <<"B","H">>, <<"B","L">>, <<"B","N">>, <<"B","R">>, <<"B","S">>,
    <<"B","T">>, <<"C","A">>, <<"C","B">>, <<"C","F">>, <<"C","H">>,
    <<"C","M">>, <<"C","O">>, <<"C","R">>, <<"C","T">>, <<"C","V">>,
    <<"C","W">>, <<"D","A">>, <<"D","D">>, <<"D","E">>, <<"D","G">>,
    <<"D","H">>, <<"D","L">>, <<"D","N">>, <<"D","T">>, <<"D","Y">>, <<"E">>,
    <<"E","C">>, <<"E","H">>, <<"E","N">>, <<"E","X">>, <<"F","K">>,
    <<"F","Y">>, <<"G">>, <<"G","L">>, <<"G","U">>, <<"H","A">>, <<"H","D">>,
    <<"H","G">>, <<"H","P">>, <<"H","R">>, <<"H","S">>, <<"H","U">>,
    <<"H","X">>, <<"I","G">>, <<"I","P">>, <<"I","V">>, <<"K","A">>,
    <<"K","T">>, <<"K","W">>, <<"K","Y">>, <<"L">>, <<"L","A">>, <<"L","D">>,
    <<"L","E">>, <<"L","L">>, <<"L","N">>, <<"L","S">>, <<"L","U">>, <<"M">>,
    <<"M","E">>, <<"M","K">>, <<"M","L">>, <<"N">>, <<"N","E">>, <<"N","G">>,
    <<"N","N">>, <<"N","P">>, <<"N","R">>, <<"N","W">>, <<"O","L">>,
    <<"O","X">>, <<"P","A">>, <<"P","E">>, <<"P","H">>, <<"P","L">>,
    <<"P","O">>, <<"P","R">>, <<"R","G">>, <<"R","H">>, <<"R","M">>, <<"S">>,
    <<"S","A">>, <<"S","E">>, <<"S","G">>, <<"S","K">>, <<"S","L">>,
    <<"S","M">>, <<"S","N">>, <<"S","O">>, <<"S","P">>, <<"S","R">>,
    <<"S","S">>, <<"S","T">>, <<"S","W">>, <<"S","Y">>, <<"T","A">>,
    <<"T","D">>, <<"T","F">>, <<"T","N">>, <<"T","Q">>, <<"T","R">>,
    <<"T","S">>, <<"T","W">>, <<"U","B">>, <<"W">>, <<"W","A">>, <<"W","C">>,
    <<"W","D">>, <<"W","F">>, <<"W","N">>, <<"W","R">>, <<"W","S">>,
    <<"W","V">>, <<"Y","O">>, <<"Z","E">>
}

\* pc.strip() does nothing to a regex match, which starts with a letter and
\* ends with one; then the space goes before the last three characters
format_postcode(pc) ==
    IF \E i \in 1..Len(pc) : pc[i] = " "
    THEN pc
    ELSE SubSeq(pc, 1, Len(pc) - 3) \o <<" ">> \o SubSeq(pc, Len(pc) - 2, Len(pc))

\* pc.split()[0]: the characters before the first whitespace character
FirstWord(pc) ==
    LET ws == {i \in 1..Len(pc) : pc[i] \in Whitespace}
    IN  IF ws = {} THEN pc ELSE SubSeq(pc, 1, Min(ws) - 1)

IsAlpha(c) == c \in Letters

is_valid_area(pc) ==
    SelectSeq(FirstWord(pc), IsAlpha) \in VALID_AREAS

valid_pc(fp) ==
    /\ MatchesGrammar(fp, Whitespace, FALSE)
    /\ is_valid_area(fp)

(***************************************************************************)
(* Tokens of a page                                                        *)
(***************************************************************************)
\* a string of the postcode grammar, as written in the page
Pc(s) == [k |-> "pc", pc |-> s]
\* "postcode": "<s>" in embedded structured data
JsonPc(s) == [k |-> "jsonpc", pc |-> s]
\* "<n> bed"
Bed(n) == [k |-> "bed", n |-> n]
\* a pound sign and an amount, "£185,000"
Money(a) == [k |-> "money", amt |-> a]
\* a word or phrase of the vocabulary below
Word(w) == [k |-> "word", w |-> w]
\* a neutral stretch of more than 3000 characters
Gap == [k |-> "gap"]

HasPostcode(t) == t.k \in {"pc", "jsonpc"}

\* re.IGNORECASE: a phrase as the patterns see it, in lower case
IgnoreCase(w) ==
    CASE w = "Semi-Detached" -> "semi-detached"
      [] w = "SEMI" -> "semi"
      [] OTHER -> w

\* the property-type words that \b<word>\b finds in a phrase: the hyphen of
\* "semi-detached" is a word boundary on both sides
WordTypes(w) ==
    LET l == IgnoreCase(w)
    IN  CASE l = "semi-detached" -> {"semi-detached", "semi", "detached"}
          [] l = "detached" -> {"detached"}
          [] l = "semi" -> {"semi"}
          [] l = "terraced" -> {"terraced"}
          [] l = "flat" -> {"flat"}
          [] l = "bungalow" -> {"bungalow"}
          [] l = "apartment" -> {"apartment"}
          [] l = "end terrace" -> {"end terrace"}
          [] l = "studio" -> {"studio"}
          [] l = "maisonette" -> {"maisonette"}
          [] l = "townhouse" -> {"townhouse"}
          [] l = "cottage" -> {"cottage"}
          [] OTHER -> {}

\* the scorer keywords that are substrings of a phrase in lower case
WordKeywords(w) ==
    CASE w = "estate agent" -> {"estate agent", "agent"}
      [] w = "tel:" -> {"tel:"}
      [] w = "for sale in" -> {"for sale"}
      [] w = "price:" -> {"price"}
      [] w = "postcode:" -> {"postcode"}
      [] w = "flat" -> {"flat"}
      [] w = "house" -> {"house"}
      [] w = "townhouse" -> {"house"}
      [] w = "Orme Avenue, Alkrington" -> {"avenue"}
      [] w = "vat no" -> {"vat", "vat no"}
      [] OTHER -> {}

\* the number of characters of a phrase
WordLen(w) ==
    CASE w = "semi-detached" -> 13
      [] w = "detached" -> 8
      [] w = "semi" -> 4
      [] w = "terraced" -> 8
      [] w = "flat" -> 4
      [] w = "bungalow" -> 8
      [] w = "apartment" -> 9
      [] w = "house" -> 5
      [] w = "Semi-Detached" -> 13
      [] w = "SEMI" -> 4
      [] w = "end terrace" -> 11
      [] w = "studio" -> 6
      [] w = "maisonette" -> 10
      [] w = "townhouse" -> 9
      [] w = "cottage" -> 7
      [] w = "estate agent" -> 12
      [] w = "tel:" -> 4
      [] w = "for sale in" -> 11
      [] w = "price:" -> 6
      [] w = "postcode:" -> 9
      [] w = "Orme Avenue, Alkrington" -> 23
      [] w = "vat no" -> 6
      [] w = "| Rightmove" -> 11
      [] OTHER -> 10

Keywords(t) ==
    CASE t.k = "word" -> WordKeywords(t.w)
      [] t.k = "bed" -> {"bed"}
      [] t.k = "money" -> {"£"}
      [] t.k = "jsonpc" -> {"postcode"}
      [] OTHER -> {}

TokenLen(t) ==
    CASE t.k = "word" -> WordLen(t.w)
      [] t.k = "bed" -> IF t.n < 10 THEN 5 ELSE 6
      [] t.k = "money" -> 8
      [] t.k = "pc" -> Len(t.pc)
      [] t.k = "jsonpc" -> Len(t.pc) + 14
      [] OTHER -> 3001

RECURSIVE TextLen(_)
\* len() of the fragments joined by single spaces
TextLen(toks) ==
    IF toks = <<>> THEN 0
    ELSE IF Len(toks) = 1 THEN TokenLen(toks[1])
    ELSE TokenLen(toks[1]) + 1 + TextLen(Tail(toks))

(***************************************************************************)
(* Pages: a title line and a body.  For scrape_with_jina the text is        *)
(* "Title: <title>" and the body below it; for the direct backend the       *)
(* html is <title><title></title> and the body.  An empty title stands for  *)
(* a page without that line or tag.                                         *)
(***************************************************************************)
PageText(page) == page.title \o page.body

\* the positions of a text that lie before the first gap
HeadOf(text) ==
    LET gaps == {i \in 1..Len(text) : text[i].k = "gap"}
    IN  IF gaps = {} THEN 1..Len(text) ELSE 1..(Min(gaps) - 1)

\* the positions within 300 characters of position i
Window(text, i) ==
    {j \in 1..Len(text) :
        \A g \in 1..Len(text) :
            text[g].k = "gap" => ~((j <= g /\ g <= i) \/ (i <= g /\ g <= j))}

Context(text, i) == UNION {Keywords(text[j]) : j \in Window(text, i)}

AnyIn(words, context) == words \cap context # {}

(***************************************************************************)
(* scrape_with_jina: the field rules over the text of the reader proxy     *)
(***************************************************************************)
\* a phrase that ends in "price", the start of the second price pattern
EndsWithPrice(w) == w \in {"price:"}
\* a phrase that starts with a type word of the "X bed <type>" pattern
StartsNearType(w) ==
    IgnoreCase(w) \in {"semi-detached", "detached", "terraced", "flat", "house",
           "bungalow", "apartment"}
\* "postcode" followed by a colon or a space
IsPostcodeLabel(w) == w \in {"postcode:"}
\* a separator and a site name, the branding suffix of a title
IsBrandSuffix(w) == w \in {"| Rightmove"}
\* "<Name> <Road|Street|Avenue|...>, <locality>"
IsStreetLine(w) == w \in {"Orme Avenue, Alkrington"}

\* a price must be a plausible property price
PriceFloor == 10000

\* the price rule: the first match of each pattern is tried in turn and
\* taken if it exceeds the floor
JinaPrice(text) ==
    LET m1 == {i \in 1..Len(text) : text[i].k = "money"}
        m2 == {i \in 1..(Len(text) - 1) :
                  /\ text[i].k = "word" /\ EndsWithPrice(text[i].w)
                  /\ text[i + 1].k = "money"}
    IN  IF m1 # {} /\ text[Min(m1)].amt > PriceFloor
        THEN Some(text[Min(m1)].amt)
        ELSE IF m2 # {} /\ text[Min(m2) + 1].amt > PriceFloor
        THEN Some(text[Min(m2) + 1].amt)
        ELSE None

MinBedrooms == 1
MaxBedrooms == 20

BedInRange(val) == MinBedrooms <= val /\ val <= MaxBedrooms

\* bed_candidates, in the order the code appends them: (label, value, weight)
JinaBedCandidates(page) ==
    LET text == PageText(page)
        near == {i \in 1..(Len(text) - 1) :
                    /\ text[i].k = "bed"
                    /\ text[i + 1].k = "word" /\ StartsNearType(text[i + 1].w)}
        titl == {i \in 1..Len(page.title) : page.title[i].k = "bed"}
        plain == {i \in 1..Len(text) : text[i].k = "bed"}
        c1 == IF near # {} /\ BedInRange(text[Min(near)].n)
              THEN << <<"near_type", text[Min(near)].n, 90>> >> ELSE <<>>
        c2 == IF titl # {} /\ BedInRange(page.title[Min(titl)].n)
              THEN << <<"title", page.title[Min(titl)].n, 80>> >> ELSE <<>>
        c3 == IF plain # {} /\ BedInRange(text[Min(plain)].n)
              THEN << <<"plain", text[Min(plain)].n, 50>> >> ELSE <<>>
    IN  c1 \o c2 \o c3

\* the stable sort by weight, descending, keeps the first of the heaviest
TopByWeight(cands) ==
    LET best == {i \in 1..Len(cands) :
                    \A j \in 1..Len(cands) : cands[j][3] <= cands[i][3]}
    IN  cands[Min(best)]

JinaBedrooms(page) ==
    LET cands == JinaBedCandidates(page)
    IN  IF cands # <<>> THEN Some(TopByWeight(cands)[2]) ELSE None

JinaPropertyTypes ==
    <<"semi-detached", "detached", "semi", "terraced", "flat", "bungalow",
      "apartment">>

\* str.title() on the words of the lists
TitleCase(p) ==
    CASE p = "semi-detached" -> "Semi-Detached"
      [] p = "detached" -> "Detached"
      [] p = "semi" -> "Semi"
      [] p = "terraced" -> "Terraced"
      [] p = "flat" -> "Flat"
      [] p = "bungalow" -> "Bungalow"
      [] p = "apartment" -> "Apartment"
      [] p = "end terrace" -> "End Terrace"
      [] p = "studio" -> "Studio"
      [] p = "maisonette" -> "Maisonette"
      [] p = "townhouse" -> "Townhouse"
      [] p = "cottage" -> "Cottage"
      [] OTHER -> p

TypesIn(text) ==
    UNION {WordTypes(text[i].w) : i \in {j \in 1..Len(text) : text[j].k = "word"}}

\* the first word of the list that occurs anywhere in the text
PropertyTypeRule(types, text) ==
    LET found == {i \in 1..Len(types) : types[i] \in TypesIn(text)}
    IN  IF found = {} THEN None
        ELSE IF types[Min(found)] = "semi" THEN Some("Semi-Detached")
        ELSE Some(TitleCase(types[Min(found)]))

JinaPropertyType(text) == PropertyTypeRule(JinaPropertyTypes, text)

Max(S) == CHOOSE i \in S : \A j \in S : j <= i

\* re.findall(postcode_pattern, ...): the positions that hold a postcode
PostcodePositions(text) == {i \in 1..Len(text) : HasPostcode(text[i])}

\* the first position of S whose formatted postcode passes valid_pc, or 0
FirstValid(text, S) ==
    LET ok == {i \in S : valid_pc(format_postcode(text[i].pc))}
    IN  IF ok = {} THEN 0 ELSE Min(ok)

\* the score of the occurrence at position i (strategy 3)
JinaScoreAt(text, i) ==
    LET context == Context(text, i)
    IN  (IF i \in HeadOf(text) THEN 60 ELSE 0)
      + (IF AnyIn({"price", "£", "for sale", "asking"}, context) THEN 80 ELSE 0)
      + (IF AnyIn({"bedroom", "bed", "house", "flat", "property"}, context)
         THEN 60 ELSE 0)
      + (IF AnyIn({"road", "street", "avenue", "lane", "drive", "close"}, context)
         THEN 50 ELSE 0)
      + (IF AnyIn({"address", "postcode"}, context) THEN 40 ELSE 0)
      - (IF AnyIn({"estate agent", "branch", "contact us", "tel:", "phone",
                   "call us", "our office"}, context) THEN 200 ELSE 0)
      - (IF AnyIn({"agent address", "agent postcode", "branch address",
                   "office address"}, context) THEN 100 ELSE 0)
      - (IF AnyIn({"vat", "registration", "company number"}, context)
         THEN 200 ELSE 0)

\* best_score starts at 0 and is the maximum over the occurrences of raw
JinaBestScore(text, raw) ==
    Max({0} \cup {JinaScoreAt(text, j) :
                     j \in {p \in PostcodePositions(text) : text[p].pc = raw}})

\* the keys of postcode_scores, as the positions of their first occurrence
JinaCandidates(text) ==
    {i \in PostcodePositions(text) :
        /\ valid_pc(format_postcode(text[i].pc))
        /\ \A j \in PostcodePositions(text) :
              j < i => format_postcode(text[j].pc) # format_postcode(text[i].pc)}

JinaScored(text) ==
    LET cands == JinaCandidates(text)
        top == {i \in cands :
                   \A j \in cands :
                       JinaBestScore(text, text[j].pc) <= JinaBestScore(text, text[i].pc)}
    IN  IF cands = {} THEN None
        ELSE IF JinaBestScore(text, text[Min(top)].pc) >= 0
        THEN Some(format_postcode(text[Min(top)].pc))
        ELSE None

\* postcode_scores: the best score of each candidate, by its normal form
JinaPostcodeScores(text) ==
    LET cands == JinaCandidates(text)
        first(fp) == CHOOSE i \in cands : format_postcode(text[i].pc) = fp
    IN  [fp \in {format_postcode(text[i].pc) : i \in cands} |->
            JinaBestScore(text, text[first(fp)].pc)]

\* strategies 0, 1 and 2 found no postcode
JinaReachesScoring(page) ==
    LET text == PageText(page)
        lab == {i \in 1..(Len(text) - 1) :
                   /\ text[i].k = "word" /\ IsPostcodeLabel(text[i].w)
                   /\ text[i + 1].k = "pc"}
    IN  /\ FirstValid(text, PostcodePositions(text) \cap HeadOf(text)) = 0
        /\ FirstValid(page.title, PostcodePositions(page.title)) = 0
        /\ ~(lab # {} /\ valid_pc(format_postcode(text[Min(lab) + 1].pc)))

\* the four strategies, in priority order
JinaPostcode(page) ==
    LET text == PageText(page)
        s0 == FirstValid(text, PostcodePositions(text) \cap HeadOf(text))
        s1 == FirstValid(page.title, PostcodePositions(page.title))
        lab == {i \in 1..(Len(text) - 1) :
                   /\ text[i].k = "word" /\ IsPostcodeLabel(text[i].w)
                   /\ text[i + 1].k = "pc"}
    IN  IF s0 # 0 THEN Some(format_postcode(text[s0].pc))
        ELSE IF s1 # 0 THEN Some(format_postcode(page.title[s1].pc))
        ELSE IF lab # {} /\ valid_pc(format_postcode(text[Min(lab) + 1].pc))
        THEN Some(format_postcode(text[Min(lab) + 1].pc))
        ELSE JinaScored(text)

\* an address: the fragments it was cut from, whether the last of them was cut
\* at its comma, and the postcode appended to it
Address(toks, cut, pc) == [toks |-> toks, cut |-> cut, pc |-> pc]

AddressNotAvailable == Address(<<Word("Address not available")>>, FALSE, None)

\* the title without its branding suffix
StripBrand(title) ==
    LET cut == {i \in 1..Len(title) :
                   title[i].k = "word" /\ IsBrandSuffix(title[i].w)}
    IN  IF cut = {} THEN title ELSE SubSeq(title, 1, Min(cut) - 1)

JinaAddress(page, postcode) ==
    LET title == StripBrand(page.title)
        text == PageText(page)
        inTitle == \E i \in PostcodePositions(title) :
                       Some(title[i].pc) = postcode
        street == {i \in 1..Len(text) :
                      text[i].k = "word" /\ IsStreetLine(text[i].w)}
    IN  IF title # <<>> /\ TextLen(title) > 5
        THEN Some(Address(title, FALSE, IF postcode # None /\ ~inTitle
                                        THEN postcode ELSE None))
        ELSE IF street # {} THEN Some(Address(<<text[Min(street)]>>, FALSE, None))
        ELSE Some(AddressNotAvailable)

\* the record scrape_with_jina returns for the text of a page
scrape_with_jina(page) ==
    LET postcode == JinaPostcode(page)
    IN  [address |-> JinaAddress(page, postcode),
         postcode |-> postcode,
         price |-> JinaPrice(PageText(page)),
         property_type |-> JinaPropertyType(PageText(page)),
         bedrooms |-> JinaBedrooms(page),
         description |-> None]

(***************************************************************************)
(* PropertyExtractor of scrapling_extractor.py: the direct backend         *)
(***************************************************************************)
\* the words whose neighbourhood disqualifies a postcode
AGENT_WORDS ==
    {"estate agent", "branch", "contact us", "tel:", "our office", "agent",
     "call us", "vat no", "company number", "registered"}

\* the score of the occurrence at position i (strategy 3)
BasicScoreAt(html, i) ==
    IF AnyIn(AGENT_WORDS, Context(html, i)) THEN 0 - 200 ELSE 0

\* seen[pc] after the loop over the occurrences of raw
BasicBestScore(html, raw) ==
    Max({0 - 9999} \cup {BasicScoreAt(html, j) :
                            j \in {p \in PostcodePositions(html) : html[p].pc = raw}})

\* the keys of seen, as the positions of their first occurrence
BasicCandidates(html) ==
    {i \in PostcodePositions(html) :
        /\ MatchesGrammar(format_postcode(html[i].pc), Whitespace, FALSE)
        /\ \A j \in PostcodePositions(html) :
              j < i => format_postcode(html[j].pc) # format_postcode(html[i].pc)}

BasicScored(html) ==
    LET seen == BasicCandidates(html)
        top == {i \in seen :
                   \A j \in seen :
                       BasicBestScore(html, html[j].pc) <= BasicBestScore(html, html[i].pc)}
    IN  IF seen = {} THEN None
        ELSE IF BasicBestScore(html, html[Min(top)].pc) >= 0
        THEN Some(format_postcode(html[Min(top)].pc))
        ELSE None

\* seen: the best score of each candidate, by its normal form
BasicSeen(html) ==
    LET cands == BasicCandidates(html)
        first(fp) == CHOOSE i \in cands : format_postcode(html[i].pc) = fp
    IN  [fp \in {format_postcode(html[i].pc) : i \in cands} |->
            BasicBestScore(html, html[first(fp)].pc)]

\* strategies 1 and 2 found no postcode
BasicReachesScoring(page) ==
    /\ PostcodePositions(page.title) = {}
    /\ \A i \in 1..Len(PageText(page)) : PageText(page)[i].k # "jsonpc"

\* the three strategies of _extract_postcode, in priority order
_extract_postcode(page) ==
    LET html == PageText(page)
        title_pc == PostcodePositions(page.title)
        json == {i \in 1..Len(html) : html[i].k = "jsonpc"}
    IN  IF title_pc # {} THEN Some(format_postcode(page.title[Min(title_pc)].pc))
        ELSE IF json # {} THEN Some(format_postcode(html[Min(json)].pc))
        ELSE BasicScored(html)

\* [A-Z]{1,2}\d{1,2}\s?\d?[A-Z]{2} matched against the whole of s
FallbackGrammar(s) ==
    \E a \in {1, 2}, d \in {1, 2}, sp \in {0, 1}, e \in {0, 1} :
        /\ Len(s) = a + d + sp + e + 2
        /\ \A i \in 1..a : s[i] \in Letters
        /\ \A i \in (a + 1)..(a + d) : s[i] \in Digits
        /\ (sp = 1 => s[a + d + 1] \in Whitespace)
        /\ (e = 1 => s[a + d + sp + 1] \in Digits)
        /\ s[a + d + sp + e + 1] \in Letters
        /\ s[a + d + sp + e + 2] \in Letters

\* the postcode of the record: _extract_postcode, and for a url of the form
\* .../properties/<digits> the first match of the fallback pattern, as found
BasicPostcode(page, url) ==
    LET html == PageText(page)
        fallback == {i \in PostcodePositions(html) : FallbackGrammar(html[i].pc)}
    IN  IF _extract_postcode(page) # None THEN _extract_postcode(page)
        ELSE IF url.properties /\ fallback # {} THEN Some(html[Min(fallback)].pc)
        ELSE None

BasicPrice(html) ==
    LET m == {i \in 1..Len(html) : html[i].k = "money"}
    IN  IF m # {} THEN Some(html[Min(m)].amt) ELSE None

BasicBedrooms(text) ==
    LET m == {i \in 1..Len(text) : text[i].k = "bed"}
    IN  IF m # {} THEN Some(text[Min(m)].n) ELSE None

BasicPropertyTypes == <<"detached", "semi", "terraced", "flat", "bungalow">>

BasicPropertyType(text) == PropertyTypeRule(BasicPropertyTypes, text)

\* the list of adaptive_scraper.PropertyExtractor._extract_property_type
AdaptivePropertyTypes ==
    <<"detached", "semi-detached", "semi", "terraced", "end terrace", "flat",
      "apartment", "studio", "bungalow", "maisonette", "townhouse", "cottage">>

AdaptivePropertyType(text) == PropertyTypeRule(AdaptivePropertyTypes, text)

\* "for sale in" or "for sale at"
IsForSaleIn(w) == w \in {"for sale in"}

\* the title after "for sale in", up to the first comma that a letter follows
BasicAddress(page) ==
    LET title == StripBrand(page.title)
        fs == {i \in 1..(Len(title) - 1) :
                  title[i].k = "word" /\ IsForSaleIn(title[i].w)}
        from == Min(fs) + 1
        comma == {i \in from..Len(title) :
                     title[i].k = "word" /\ IsStreetLine(title[i].w)}
    IN  IF fs = {} THEN None
        ELSE IF comma = {} THEN Some(Address(SubSeq(title, from, Len(title)), FALSE, None))
        ELSE Some(Address(SubSeq(title, from, Min(comma)), TRUE, None))

\* the record extract_property returns when fetch returned no page
FetchFailedRecord ==
    [address |-> None, postcode |-> None, price |-> None,
     property_type |-> None, bedrooms |-> None, description |-> None,
     error |-> Some("Failed to fetch page")]

\* the record extract_property returns for a fetched page
extract_property(page, url) ==
    [address |-> BasicAddress(page),
     postcode |-> BasicPostcode(page, url),
     price |-> BasicPrice(PageText(page)),
     property_type |-> BasicPropertyType(PageText(page)),
     bedrooms |-> BasicBedrooms(PageText(page)),
     description |-> None]

(***************************************************************************)
(* The pages the backends are given                                        *)
(***************************************************************************)
SeqsUpTo(S, n) == UNION {[1..m -> S] : m \in 0..n}

M24_1JZ == <<"M", "2", "4", " ", "1", "J", "Z">>
\* the postcode grammar, but no postcode area
ZZ1_1AA == <<"Z", "Z", "1", " ", "1", "A", "A">>
OL13LA == <<"O", "L", "1", "3", "L", "A">>

TitleTokens == {Word("for sale in"), Word("Orme Avenue, Alkrington")}

BodyTokens ==
    {Money(250000), Money(500), Money(0), Bed(3), Bed(25), Pc(M24_1JZ), Pc(ZZ1_1AA),
     Word("semi-detached"), Word("apartment")}

Pages ==
    {[title |-> t, body |-> b] :
        t \in SeqsUpTo(TitleTokens, MaxTitleLen),
        b \in SeqsUpTo(BodyTokens, MaxBodyLen)}

\* a listing url: whether it has the form .../properties/<digits>
Urls == {[properties |-> TRUE], [properties |-> FALSE]}

\* what scrape_with_jina can return: None (status not 200, or an exception),
\* or the record of a text
JinaReturns == {None} \cup {Some(scrape_with_jina(p)) : p \in Pages}

\* what extract_property can return: the record of a failed fetch, or the
\* record of a page
BasicReturns ==
    {Some(FetchFailedRecord)}
    \cup {Some(extract_property(p, u)) : p \in Pages, u \in Urls}

(***************************************************************************)
(* extract_url: the race of the two backends, the merge and the response   *)
(***************************************************************************)
Tasks == {"jina", "basic"}
\* the requests of a behaviour: one, or two that are given the same backend
\* responses
RunIds == {1, 2}

VARIABLES
    jina_task,       \* what scrape_with_jina(url) does, per request
    basic_task,      \* what extract_property_from_url(url) does, per request
    runs,            \* the requests under way
    pc,              \* where extract_url stands, per request
    fut,             \* the state of the two futures, per request
    finish_order,    \* the tasks of a request in the order they finished
    yielded,         \* the futures as_completed has yielded
    jina_result,
    basic_result,
    loop_exit,       \* how the as_completed loop ended
    late,            \* the tasks that finished after the loop had ended
    extracted_data,
    response

\* AdaptiveScraper of adaptive_scraper.py: one instance and the threads that
\* call its fetch and extract_with_retry
VARIABLES
    clock,              \* time.time(), in ticks
    last_request_time,  \* self.last_request_time
    fetchers,           \* the threads that share the instance
    where,              \* where each thread stands
    budget,             \* the calls each thread is going to make
    server,             \* the answers the site gives to a request
    calls,              \* the calls each thread has made
    entry,              \* the method a thread has called: fetch or extract_with_retry
    attempt,            \* the loop variable of extract_with_retry
    wake,               \* the time a sleeping thread asked to be woken at
    in_flight,          \* what the server answers to the request under way
    returned,           \* what the last call of a thread returned
    gate_log,           \* the times at which _rate_limit was passed
    request_log,        \* the times at which session.get was called
    fetch_log,          \* what each fetch was answered and what it returned
    sleep_log           \* the sleeps of _rate_limit and of extract_with_retry

orch_vars == <<jina_task, basic_task, runs, pc, fut, finish_order, yielded,
               jina_result, basic_result, loop_exit, late, extracted_data, response>>

scraper_vars == <<clock, last_request_time, fetchers, budget, server, where, calls, entry, attempt,
                  wake, in_flight, returned, gate_log, request_log, fetch_log,
                  sleep_log>>

\* one extraction: a fetched content and the record each extractor makes of it
VARIABLES
    content,        \* the page: the text of the reader proxy, the html of the site
    listing_url,    \* the url of the listing
    jina_record,    \* what scrape_with_jina makes of the content
    basic_record,   \* what PropertyExtractor.extract_property makes of it
    postcode_scores,\* the scores of strategy 3 of scrape_with_jina, if it ran
    seen,           \* the scores of strategy 3 of _extract_postcode, if it ran
    adaptive_type,  \* what adaptive_scraper's _extract_property_type makes of it
    answer,         \* what the site answers to the GET of a direct backend
    basic_html,     \* what PropertyExtractor.fetch did with the answer
    adaptive_html   \* what AdaptiveScraper.fetch did with the answer

extract_vars == <<content, listing_url, jina_record, basic_record,
                  postcode_scores, seen, adaptive_type, answer,
                  basic_html, adaptive_html>>

\* PlaywrightPropertyScraper.extract_property: one call
VARIABLES
    pw_url,               \* the url, as the parts it is written in
    playwright_available, \* PLAYWRIGHT_AVAILABLE
    browser_gives,        \* what page.content() would give, or None for a timeout or an error
    pw_answer,            \* what the site answers to the GET of the fallback
    pw_at,                \* where the call is
    pw_html,              \* html
    used_method,
    pw_fetches,           \* the fetches the call has made
    pw_data               \* what the call returned

playwright_vars == <<pw_url, playwright_available, browser_gives, pw_answer, pw_at,
                     pw_html, used_method, pw_fetches, pw_data>>

\* check_article_4: one call
VARIABLES
    postcode_asked,       \* the argument
    lookup                \* what the call returned

lookup_vars == <<postcode_asked, lookup>>

\* PropertyDataAPI: one instance and the calls of _make_request on it
VARIABLES
    api_key,
    cache,                \* self.cache: cache_key -> (data, time)
    today,                \* datetime.now(), in days
    last_call             \* the last call of _make_request and what it did

cache_vars == <<api_key, cache, today, last_call>>

\* the components that take no part in a request to extract_url
other_vars == <<playwright_vars, lookup_vars, cache_vars>>

vars == <<orch_vars, scraper_vars, extract_vars, other_vars>>

\* a backend call returns a value or raises
Returns(v) == [kind |-> "return", val |-> v]
Raises == [kind |-> "raise", val |-> None]

\* scrape_with_jina catches every exception; PropertyExtractor.fetch catches
\* those of requests only, and extract_property catches none
JinaOutcomes == {Returns(v) : v \in JinaReturns}
BasicOutcomes == {Returns(v) : v \in BasicReturns} \cup {Raises}

Truthy(v) == v # None /\ v # Some(0)

\* _has_data without the test for the placeholder
_has_data_any_address(d) ==
    IF d = None THEN FALSE
    ELSE Truthy(d[1].price) \/ d[1].address # None

_has_data(d) ==
    IF d = None THEN FALSE
    ELSE LET addr == d[1].address
         IN  Truthy(d[1].price) \/ (addr # None /\ addr # Some(AddressNotAvailable))

\* v not in (None, '', 'Address not available'); of the fields of a record
\* only the address is a string that can be the placeholder
Overrides(k, v) == v # None /\ ~(k = "address" /\ v = Some(AddressNotAvailable))

\* {**basic, **{k: v for k, v in jina.items() if ...}}
Overlay(basic, jina) ==
    [k \in DOMAIN basic \cup DOMAIN jina |->
        IF k \in DOMAIN jina /\ Overrides(k, jina[k]) THEN jina[k] ELSE basic[k]]

\* the merge with the overlay applied whenever both results are there
MergeResults_always_overlay(jina, basic) ==
    IF jina # None /\ basic # None THEN Some(Overlay(basic[1], jina[1]))
    ELSE IF _has_data(jina) THEN jina
    ELSE IF _has_data(basic) THEN basic
    ELSE None

MergeResults(jina, basic) ==
    IF _has_data(jina) /\ _has_data(basic) THEN Some(Overlay(basic[1], jina[1]))
    ELSE IF _has_data(jina) THEN jina
    ELSE IF _has_data(basic) THEN basic
    ELSE None

Success(data) ==
    [success |-> TRUE, status |-> 200, data |-> data,
     message |-> "Data extracted successfully"]

Failure ==
    [success |-> FALSE, status |-> 400, data |-> None,
     message |-> "Could not extract data from this URL. Please enter details manually."]

ResponseFor(data) ==
    IF data # None /\ _has_data(data) THEN Success(data) ELSE Failure

TaskOf(r, t) == IF t = "jina" THEN jina_task[r] ELSE basic_task[r]

\* the finished futures that as_completed has not yielded yet
Unyielded(r) == {t \in Tasks : fut[r][t] = "finished" /\ t \notin yielded[r]}

\* as_completed yields in finishing order
NextYield(r) ==
    LET i == Min({j \in 1..Len(finish_order[r]) : finish_order[r][j] \in Unyielded(r)})
    IN  finish_order[r][i]

(***************************************************************************)
(* AdaptiveScraper: its constants and the state after __init__             *)
(***************************************************************************)
\* the ticks of the clock in a second
TicksPerSecond == 1
\* the time the clock stops at, in seconds
MaxTime == 4
\* the calls a thread makes
MaxCalls == 2

\* self.min_delay, in seconds
min_delay == 1
\* the default of max_retries
max_retries == 2
\* time.sleep(2) between the attempts
RetryBackOff == 2

Fetchers == {1, 2}

\* no content is being extracted from
NoExtraction ==
    /\ content = [title |-> <<>>, body |-> <<>>]
    /\ listing_url = [properties |-> FALSE]
    /\ jina_record = None
    /\ basic_record = None
    /\ postcode_scores = None
    /\ seen = None
    /\ adaptive_type = None
    /\ answer = None
    /\ basic_html = None
    /\ adaptive_html = None

\* no call of PlaywrightPropertyScraper.extract_property is under way
NoBrowser ==
    /\ pw_url = <<>>
    /\ playwright_available = FALSE
    /\ browser_gives = None
    /\ pw_answer = None
    /\ pw_at = "returned"
    /\ pw_html = None
    /\ used_method = "fallback"
    /\ pw_fetches = {}
    /\ pw_data = None

\* no call of check_article_4 is under way
NoLookup ==
    /\ postcode_asked = <<>>
    /\ lookup = None

\* the calls of _make_request: an endpoint and the parameters
ApiCalls ==
    {[endpoint |-> "valuation-rent", postcode |-> "M14 7EH", bedrooms |-> 3],
     [endpoint |-> "prices", postcode |-> "M14 7EH", bedrooms |-> 3]}

\* f"{endpoint}:{json.dumps(params, sort_keys=True)}", the key among the
\* parameters
cache_key(call, key) ==
    <<call.endpoint, [postcode |-> call.postcode, bedrooms |-> call.bedrooms,
                      key |-> key]>>

CacheKeys == {cache_key(call, "key") : call \in ApiCalls}

\* self.cache = {}
EmptyCache == [k \in CacheKeys |-> None]

\* a PropertyDataAPI without a key, which is never called
NoPropertyData ==
    /\ api_key = None
    /\ cache = EmptyCache
    /\ today = 0
    /\ last_call = None

\* the state of an instance after __init__, shared by the threads fs, each
\* of which is going to make n calls, against a site that gives the answers.
\* The clock is the time since the epoch, far more than min_delay
AfterConstruction(fs, n, answers) ==
    /\ clock = min_delay * TicksPerSecond
    /\ last_request_time = 0
    /\ fetchers = fs
    /\ budget = [t \in Fetchers |-> n]
    /\ server = answers
    /\ where = [t \in Fetchers |-> "idle"]
    /\ calls = [t \in Fetchers |-> 0]
    /\ entry = [t \in Fetchers |-> "none"]
    /\ attempt = [t \in Fetchers |-> 0]
    /\ wake = [t \in Fetchers |-> 0]
    /\ in_flight = [t \in Fetchers |-> None]
    /\ returned = [t \in Fetchers |-> None]
    /\ gate_log = <<>>
    /\ request_log = <<>>
    /\ fetch_log = <<>>
    /\ sleep_log = <<>>

Idle(rs) ==
    /\ runs = rs
    /\ pc = [r \in RunIds |-> "Idle"]
    /\ fut = [r \in RunIds |-> [t \in Tasks |-> "none"]]
    /\ finish_order = [r \in RunIds |-> <<>>]
    /\ yielded = [r \in RunIds |-> {}]
    /\ jina_result = [r \in RunIds |-> None]
    /\ basic_result = [r \in RunIds |-> None]
    /\ loop_exit = [r \in RunIds |-> "none"]
    /\ late = [r \in RunIds |-> {}]
    /\ extracted_data = [r \in RunIds |-> None]
    /\ response = [r \in RunIds |-> None]

\* one request, for any url and any behaviour of the two backends
Init ==
    /\ \E j \in JinaOutcomes : jina_task = [r \in RunIds |-> j]
    /\ \E b \in BasicOutcomes : basic_task = [r \in RunIds |-> b]
    /\ Idle({1})
    /\ NoBrowser /\ NoLookup /\ NoPropertyData
    /\ AfterConstruction({}, 0, {})
    /\ NoExtraction

\* pool.submit(scrape_with_jina, url)
SubmitJina(r) ==
    /\ pc[r] = "Idle"
    /\ fut' = [fut EXCEPT ![r]["jina"] = "running"]
    /\ pc' = [pc EXCEPT ![r] = "Submitting"]
    /\ UNCHANGED <<scraper_vars, extract_vars, other_vars>>
    /\ UNCHANGED <<jina_task, basic_task, runs, finish_order, yielded,
                   jina_result, basic_result, loop_exit, late, extracted_data,
                   response>>

\* pool.submit(extract_property_from_url, url), and the call of as_completed
SubmitBasic(r) ==
    /\ pc[r] = "Submitting"
    /\ fut' = [fut EXCEPT ![r]["basic"] = "running"]
    /\ pc' = [pc EXCEPT ![r] = "Racing"]
    /\ UNCHANGED <<scraper_vars, extract_vars, other_vars>>
    /\ UNCHANGED <<jina_task, basic_task, runs, finish_order, yielded,
                   jina_result, basic_result, loop_exit, late, extracted_data,
                   response>>

\* a worker thread ends its call: the future is finished, with a result or
\* with an exception.  Each call spends its time on the network (and the
\* direct backend sleeps half a second first), so none ends before the loop
\* has started
Finish(r, t) ==
    /\ fut[r][t] = "running"
    /\ pc[r] \in {"Racing", "Merging", "Closing"}
    /\ fut' = [fut EXCEPT ![r][t] = "finished"]
    /\ finish_order' = [finish_order EXCEPT ![r] = Append(@, t)]
    /\ late' = [late EXCEPT ![r] = IF pc[r] = "Racing" THEN @ ELSE @ \cup {t}]
    /\ UNCHANGED <<scraper_vars, extract_vars, other_vars>>
    /\ UNCHANGED <<jina_task, basic_task, runs, pc, yielded, jina_result,
                   basic_result, loop_exit, extracted_data, response>>

\* the loop with a break after the first result that has data
Collect_with_break(r) ==
    /\ pc[r] = "Racing"
    /\ Unyielded(r) # {}
    /\ LET t == NextYield(r)
       IN  /\ yielded' = [yielded EXCEPT ![r] = @ \cup {t}]
           /\ IF TaskOf(r, t).kind = "raise"
              THEN /\ loop_exit' = [loop_exit EXCEPT ![r] = "exception"]
                   /\ pc' = [pc EXCEPT ![r] = "Merging"]
                   /\ UNCHANGED <<jina_result, basic_result>>
              ELSE /\ jina_result' = IF t = "jina"
                                     THEN [jina_result EXCEPT ![r] = TaskOf(r, t).val]
                                     ELSE jina_result
                   /\ basic_result' = IF t = "basic"
                                      THEN [basic_result EXCEPT ![r] = TaskOf(r, t).val]
                                      ELSE basic_result
                   /\ IF _has_data(TaskOf(r, t).val)
                      THEN /\ loop_exit' = [loop_exit EXCEPT ![r] = "break"]
                           /\ pc' = [pc EXCEPT ![r] = "Merging"]
                      ELSE UNCHANGED <<loop_exit, pc>>
    /\ UNCHANGED <<scraper_vars, extract_vars, other_vars>>
    /\ UNCHANGED <<jina_task, basic_task, runs, fut, finish_order, late,
                   extracted_data, response>>

\* one turn of the loop: as_completed yields the next finished future and
\* future.result() returns its value, or raises what the call raised, which
\* the except clause around the loop swallows
Collect(r) ==
    /\ pc[r] = "Racing"
    /\ Unyielded(r) # {}
    /\ LET t == NextYield(r)
       IN  /\ yielded' = [yielded EXCEPT ![r] = @ \cup {t}]
           /\ IF TaskOf(r, t).kind = "raise"
              THEN /\ loop_exit' = [loop_exit EXCEPT ![r] = "exception"]
                   /\ pc' = [pc EXCEPT ![r] = "Merging"]
                   /\ UNCHANGED <<jina_result, basic_result>>
              ELSE /\ jina_result' = IF t = "jina"
                                     THEN [jina_result EXCEPT ![r] = TaskOf(r, t).val]
                                     ELSE jina_result
                   /\ basic_result' = IF t = "basic"
                                      THEN [basic_result EXCEPT ![r] = TaskOf(r, t).val]
                                      ELSE basic_result
                   /\ UNCHANGED <<loop_exit, pc>>
    /\ UNCHANGED <<scraper_vars, extract_vars, other_vars>>
    /\ UNCHANGED <<jina_task, basic_task, runs, fut, finish_order, late,
                   extracted_data, response>>

\* as_completed has yielded both futures
LoopExhausted(r) ==
    /\ pc[r] = "Racing"
    /\ yielded[r] = Tasks
    /\ loop_exit' = [loop_exit EXCEPT ![r] = "exhausted"]
    /\ pc' = [pc EXCEPT ![r] = "Merging"]
    /\ UNCHANGED <<scraper_vars, extract_vars, other_vars>>
    /\ UNCHANGED <<jina_task, basic_task, runs, fut, finish_order, yielded,
                   jina_result, basic_result, late, extracted_data, response>>

\* 25 seconds after its call as_completed still waits for a future: it
\* raises TimeoutError, which the except clause swallows.  A future that
\* finished before that has woken the loop and has been yielded
Timeout(r) ==
    /\ pc[r] = "Racing"
    /\ \E t \in Tasks : fut[r][t] = "running"
    /\ Unyielded(r) = {}
    /\ loop_exit' = [loop_exit EXCEPT ![r] = "timeout"]
    /\ pc' = [pc EXCEPT ![r] = "Merging"]
    /\ UNCHANGED <<scraper_vars, extract_vars, other_vars>>
    /\ UNCHANGED <<jina_task, basic_task, runs, fut, finish_order, yielded,
                   jina_result, basic_result, late, extracted_data, response>>

\* the merge reading future.result() of every future that is done by then
Merge_reading_futures(r) ==
    LET now(t, stored) == IF fut[r][t] = "finished" /\ TaskOf(r, t).kind = "return"
                          THEN TaskOf(r, t).val ELSE stored
    IN  /\ pc[r] = "Merging"
        /\ extracted_data' = [extracted_data EXCEPT ![r] =
                                 MergeResults(now("jina", jina_result[r]),
                                              now("basic", basic_result[r]))]
        /\ pc' = [pc EXCEPT ![r] = "Closing"]
        /\ UNCHANGED <<scraper_vars, extract_vars, other_vars>>
        /\ UNCHANGED <<jina_task, basic_task, runs, fut, finish_order, yielded,
                       jina_result, basic_result, loop_exit, late, response>>

\* the merge of the results the loop has collected
Merge(r) ==
    /\ pc[r] = "Merging"
    /\ extracted_data' = [extracted_data EXCEPT ![r] =
                             MergeResults(jina_result[r], basic_result[r])]
    /\ pc' = [pc EXCEPT ![r] = "Closing"]
    /\ UNCHANGED <<scraper_vars, extract_vars, other_vars>>
    /\ UNCHANGED <<jina_task, basic_task, runs, fut, finish_order, yielded,
                   jina_result, basic_result, loop_exit, late, response>>

\* the end of the with block: ThreadPoolExecutor.__exit__ is shutdown(wait=True),
\* which returns when both worker threads have ended their calls
ClosePool(r) ==
    /\ pc[r] = "Closing"
    /\ \A t \in Tasks : fut[r][t] = "finished"
    /\ pc' = [pc EXCEPT ![r] = "Responding"]
    /\ UNCHANGED <<scraper_vars, extract_vars, other_vars>>
    /\ UNCHANGED <<jina_task, basic_task, runs, fut, finish_order, yielded,
                   jina_result, basic_result, loop_exit, late, extracted_data,
                   response>>

\* the jsonify of the outcome
Respond(r) ==
    /\ pc[r] = "Responding"
    /\ response' = [response EXCEPT ![r] = Some(ResponseFor(extracted_data[r]))]
    /\ pc' = [pc EXCEPT ![r] = "Done"]
    /\ UNCHANGED <<scraper_vars, extract_vars, other_vars>>
    /\ UNCHANGED <<jina_task, basic_task, runs, fut, finish_order, yielded,
                   jina_result, basic_result, loop_exit, late, extracted_data>>

Next ==
    \/ \E r \in runs : SubmitJina(r)
    \/ \E r \in runs : SubmitBasic(r)
    \/ \E r \in runs, t \in Tasks : Finish(r, t)
    \/ \E r \in runs : Collect(r)
    \/ \E r \in runs : LoopExhausted(r)
    \/ \E r \in runs : Timeout(r)
    \/ \E r \in runs : Merge(r)
    \/ \E r \in runs : ClosePool(r)
    \/ \E r \in runs : Respond(r)

Spec == Init /\ [][Next]_vars

(***************************************************************************)
(* Two requests side by side, each with backends mocked to one of a few    *)
(* behaviours: what two requests have in common, and where they differ     *)
(***************************************************************************)
EmptyPage == [title |-> <<>>, body |-> <<>>]
ListingPage == [title |-> <<>>, body |-> <<Money(250000), Pc(M24_1JZ)>>]

MockJina ==
    {Returns(None), Returns(Some(scrape_with_jina(EmptyPage))),
     Returns(Some(scrape_with_jina(ListingPage)))}

MockBasic ==
    {Returns(Some(FetchFailedRecord)),
     Returns(Some(extract_property(EmptyPage, [properties |-> FALSE]))),
     Returns(Some(extract_property(ListingPage, [properties |-> FALSE]))),
     Raises}

InitTwoRequests ==
    /\ jina_task \in [RunIds -> MockJina]
    /\ basic_task \in [RunIds -> MockBasic]
    /\ Idle({1, 2})
    /\ NoBrowser /\ NoLookup /\ NoPropertyData
    /\ AfterConstruction({}, 0, {})
    /\ NoExtraction

SpecTwoRequests == InitTwoRequests /\ [][Next]_vars

(***************************************************************************)
(* AdaptiveScraper: _rate_limit, fetch and extract_with_retry, called by   *)
(* threads that share one instance                                         *)
(***************************************************************************)
\* what session.get gives: a response with a status and a body, or an
\* exception of requests
Response(status, text) == [kind |-> "response", status |-> status, text |-> text]
RequestException(e) == [kind |-> "exception", exc |-> e]

\* str.lower() on the words of the bodies
Lower(w) ==
    CASE w = "Captcha" -> "captcha"
      [] w = "Cloudflare" -> "cloudflare"
      [] w = "Access Denied" -> "access denied"
      [] w = "Zoopla.co.uk" -> "zoopla.co.uk"
      [] OTHER -> w

\* sig in text.lower()
Contains(text, sig) == \E i \in 1..Len(text) : Lower(text[i]) = sig

ServerAnswers ==
    {Response(200, <<"listing">>),
     Response(200, <<"listing", "Captcha">>),
     Response(200, <<"Cloudflare">>),
     Response(200, <<>>),
     Response(503, <<"listing">>),
     RequestException("ConnectionError"),
     RequestException("Timeout")}

\* raise_for_status raises for the statuses of an error
RaisesForStatus(status) == status >= 400

\* the block test on the text as it is written, without lower()
AdaptiveBlocked_case_sensitive(text) ==
    \E i \in 1..Len(text) : text[i] \in {"captcha", "cloudflare"}

\* the block test of AdaptiveScraper.fetch
AdaptiveBlocked(text) == Contains(text, "captcha") \/ Contains(text, "cloudflare")

\* what AdaptiveScraper.fetch returns for an answer of the server: every
\* exception is caught and gives None
AdaptiveFetchResult(ans) ==
    IF ans.kind = "exception" THEN None
    ELSE IF RaisesForStatus(ans.status) THEN None
    ELSE IF AdaptiveBlocked(ans.text) THEN None
    ELSE Some(ans.text)

\* `if result:` is false for None and for the empty string
HasContent(result) == result # None /\ result # Some(<<>>)

Ticks(seconds) == seconds * TicksPerSecond

\* a thread calls fetch(url)
CallFetch(t) ==
    /\ where[t] = "idle"
    /\ calls[t] < budget[t]
    /\ calls' = [calls EXCEPT ![t] = @ + 1]
    /\ entry' = [entry EXCEPT ![t] = "fetch"]
    /\ attempt' = [attempt EXCEPT ![t] = 0]
    /\ where' = [where EXCEPT ![t] = "rate_limit"]
    /\ UNCHANGED <<clock, last_request_time, fetchers, budget, server, wake, in_flight, returned,
                   gate_log, request_log, fetch_log, sleep_log>>
    /\ UNCHANGED <<orch_vars, extract_vars, other_vars>>

\* a thread calls extract_with_retry(url): the first turn of the loop
CallExtractWithRetry(t) ==
    /\ where[t] = "idle"
    /\ calls[t] < budget[t]
    /\ calls' = [calls EXCEPT ![t] = @ + 1]
    /\ entry' = [entry EXCEPT ![t] = "extract_with_retry"]
    /\ attempt' = [attempt EXCEPT ![t] = 0]
    /\ where' = [where EXCEPT ![t] = "rate_limit"]
    /\ UNCHANGED <<clock, last_request_time, fetchers, budget, server, wake, in_flight, returned,
                   gate_log, request_log, fetch_log, sleep_log>>
    /\ UNCHANGED <<orch_vars, extract_vars, other_vars>>

\* _rate_limit without its sleep
RateLimitCheck_never_sleeps(t) ==
    /\ where[t] = "rate_limit"
    /\ where' = [where EXCEPT ![t] = "stamp"]
    /\ UNCHANGED <<wake, sleep_log>>
    /\ UNCHANGED <<clock, last_request_time, fetchers, budget, server, calls, entry, attempt,
                   in_flight, returned, gate_log, request_log, fetch_log>>
    /\ UNCHANGED <<orch_vars, extract_vars, other_vars>>

\* _rate_limit: elapsed = time.time() - self.last_request_time, and the
\* sleep when it is less than min_delay
RateLimitCheck(t) ==
    /\ where[t] = "rate_limit"
    /\ LET elapsed == clock - last_request_time
       IN  IF elapsed < Ticks(min_delay)
           THEN /\ wake' = [wake EXCEPT ![t] = clock + (Ticks(min_delay) - elapsed)]
                /\ where' = [where EXCEPT ![t] = "sleeping"]
                /\ sleep_log' = Append(sleep_log,
                                       [who |-> t, in |-> "_rate_limit", at |-> clock,
                                        for |-> Ticks(min_delay) - elapsed,
                                        call |-> calls[t],
                                        attempt |-> attempt[t]])
           ELSE /\ where' = [where EXCEPT ![t] = "stamp"]
                /\ UNCHANGED <<wake, sleep_log>>
    /\ UNCHANGED <<clock, last_request_time, fetchers, budget, server, calls, entry, attempt,
                   in_flight, returned, gate_log, request_log, fetch_log>>
    /\ UNCHANGED <<orch_vars, extract_vars, other_vars>>

\* time.sleep returns, no sooner than asked
RateLimitWake(t) ==
    /\ where[t] = "sleeping"
    /\ clock >= wake[t]
    /\ where' = [where EXCEPT ![t] = "stamp"]
    /\ UNCHANGED <<clock, last_request_time, fetchers, budget, server, calls, entry, attempt,
                   wake, in_flight, returned, gate_log, request_log, fetch_log,
                   sleep_log>>
    /\ UNCHANGED <<orch_vars, extract_vars, other_vars>>

\* _rate_limit: self.last_request_time = time.time(); the thread is through
RateLimitStamp(t) ==
    /\ where[t] = "stamp"
    /\ last_request_time' = clock
    /\ gate_log' = Append(gate_log, [who |-> t, at |-> clock])
    /\ where' = [where EXCEPT ![t] = "get"]
    /\ UNCHANGED <<clock, fetchers, budget, server, calls, entry, attempt, wake, in_flight,
                   returned, request_log, fetch_log, sleep_log>>
    /\ UNCHANGED <<orch_vars, extract_vars, other_vars>>

\* fetch: self.session.get(url, ...) sends the request
Get(t) ==
    /\ where[t] = "get"
    /\ request_log' = Append(request_log,
                             [who |-> t, at |-> clock, attempt |-> attempt[t],
                              call |-> calls[t]])
    /\ \E ans \in server : in_flight' = [in_flight EXCEPT ![t] = Some(ans)]
    /\ where' = [where EXCEPT ![t] = "waiting"]
    /\ UNCHANGED <<clock, last_request_time, fetchers, budget, server, calls, entry, attempt,
                   wake, returned, gate_log, fetch_log, sleep_log>>
    /\ UNCHANGED <<orch_vars, extract_vars, other_vars>>

\* the loop with the back-off after the last turn as well
FetchReturns_sleeps_after_every_failure(t) ==
    /\ where[t] = "waiting"
    /\ LET result == AdaptiveFetchResult(in_flight[t][1])
       IN  /\ fetch_log' = Append(fetch_log,
                                  [who |-> t, call |-> calls[t], attempt |-> attempt[t],
                                   entry |-> entry[t],
                                   answer |-> in_flight[t][1], result |-> result])
           /\ IF entry[t] = "fetch" \/ HasContent(result)
              THEN /\ returned' = [returned EXCEPT ![t] = result]
                   /\ where' = [where EXCEPT ![t] = "idle"]
                   /\ UNCHANGED <<wake, sleep_log>>
              ELSE IF attempt[t] < max_retries
              THEN /\ wake' = [wake EXCEPT ![t] = clock + Ticks(RetryBackOff)]
                   /\ where' = [where EXCEPT ![t] = "backoff"]
                   /\ sleep_log' = Append(sleep_log,
                                          [who |-> t, in |-> "extract_with_retry",
                                           at |-> clock, for |-> Ticks(RetryBackOff),
                                           call |-> calls[t],
                                           attempt |-> attempt[t]])
                   /\ UNCHANGED returned
              ELSE /\ returned' = [returned EXCEPT ![t] = None]
                   /\ where' = [where EXCEPT ![t] = "idle"]
                   /\ UNCHANGED <<wake, sleep_log>>
    /\ in_flight' = [in_flight EXCEPT ![t] = None]
    /\ UNCHANGED <<clock, last_request_time, fetchers, budget, server, calls, entry, attempt,
                   gate_log, request_log>>
    /\ UNCHANGED <<orch_vars, extract_vars, other_vars>>

\* the answer arrives and fetch returns.  For a call of fetch that is the
\* end; in extract_with_retry a result with content is returned, a result
\* without is followed by time.sleep(2) and the next turn of the loop, or,
\* after the last turn, by the return of None
FetchReturns(t) ==
    /\ where[t] = "waiting"
    /\ LET result == AdaptiveFetchResult(in_flight[t][1])
       IN  /\ fetch_log' = Append(fetch_log,
                                  [who |-> t, call |-> calls[t], attempt |-> attempt[t],
                                   entry |-> entry[t],
                                   answer |-> in_flight[t][1], result |-> result])
           /\ IF entry[t] = "fetch" \/ HasContent(result)
              THEN /\ returned' = [returned EXCEPT ![t] = result]
                   /\ where' = [where EXCEPT ![t] = "idle"]
                   /\ UNCHANGED <<wake, sleep_log>>
              ELSE IF attempt[t] < max_retries - 1
              THEN /\ wake' = [wake EXCEPT ![t] = clock + Ticks(RetryBackOff)]
                   /\ where' = [where EXCEPT ![t] = "backoff"]
                   /\ sleep_log' = Append(sleep_log,
                                          [who |-> t, in |-> "extract_with_retry",
                                           at |-> clock, for |-> Ticks(RetryBackOff),
                                           call |-> calls[t],
                                           attempt |-> attempt[t]])
                   /\ UNCHANGED returned
              ELSE /\ returned' = [returned EXCEPT ![t] = None]
                   /\ where' = [where EXCEPT ![t] = "idle"]
                   /\ UNCHANGED <<wake, sleep_log>>
    /\ in_flight' = [in_flight EXCEPT ![t] = None]
    /\ UNCHANGED <<clock, last_request_time, fetchers, budget, server, calls, entry, attempt,
                   gate_log, request_log>>
    /\ UNCHANGED <<orch_vars, extract_vars, other_vars>>

\* time.sleep(2) returns and the loop takes its next turn
BackOffWake(t) ==
    /\ where[t] = "backoff"
    /\ clock >= wake[t]
    /\ attempt' = [attempt EXCEPT ![t] = @ + 1]
    /\ where' = [where EXCEPT ![t] = "rate_limit"]
    /\ UNCHANGED <<clock, last_request_time, fetchers, budget, server, calls, entry, wake,
                   in_flight, returned, gate_log, request_log, fetch_log,
                   sleep_log>>
    /\ UNCHANGED <<orch_vars, extract_vars, other_vars>>

\* time passes.  Between the stamp of _rate_limit and session.get the code
\* only builds the headers: the request leaves at the time of the stamp
Tick ==
    /\ clock < Ticks(MaxTime)
    /\ \A t \in fetchers : where[t] # "get"
    /\ clock' = clock + 1
    /\ UNCHANGED <<last_request_time, fetchers, budget, server, where, calls, entry, attempt,
                   wake, in_flight, returned, gate_log, request_log, fetch_log,
                   sleep_log>>
    /\ UNCHANGED <<orch_vars, extract_vars, other_vars>>

NextScraper ==
    \/ \E t \in fetchers : CallFetch(t)
    \/ \E t \in fetchers : CallExtractWithRetry(t)
    \/ \E t \in fetchers : RateLimitCheck(t)
    \/ \E t \in fetchers : RateLimitWake(t)
    \/ \E t \in fetchers : RateLimitStamp(t)
    \/ \E t \in fetchers : Get(t)
    \/ \E t \in fetchers : FetchReturns(t)
    \/ \E t \in fetchers : BackOffWake(t)
    \/ Tick

\* no request is under way on the routes of the application
NoRequests ==
    /\ jina_task = [r \in RunIds |-> Returns(None)]
    /\ basic_task = [r \in RunIds |-> Returns(None)]
    /\ Idle({})

\* one thread that makes its calls one after another
InitSequential ==
    /\ NoRequests
    /\ NoExtraction
    /\ NoBrowser /\ NoLookup /\ NoPropertyData
    /\ AfterConstruction({1}, MaxCalls, ServerAnswers)
SpecSequential == InitSequential /\ [][NextScraper]_vars

\* two threads that share the instance and make a call each
InitShared ==
    /\ NoRequests
    /\ NoExtraction
    /\ NoBrowser /\ NoLookup /\ NoPropertyData
    /\ AfterConstruction(Fetchers, 1,
                         {Response(200, <<"listing">>), RequestException("Timeout")})
SpecShared == InitShared /\ [][NextScraper]_vars

(***************************************************************************)
(* One extraction: each extractor applied to a content                     *)
(***************************************************************************)
\* the longest body of a content
MaxContentLen == 5

\* a name of the agency section of a page, money, two postcodes of valid
\* areas, and the stretch that sets two parts of a page apart
ContentTokens ==
    {Word("estate agent"), Money(250000), Pc(M24_1JZ), Pc(OL13LA), Gap}

Contents ==
    {[title |-> t, body |-> b] :
        t \in SeqsUpTo(ContentTokens \ {Gap}, MaxTitleLen),
        b \in SeqsUpTo(ContentTokens, MaxContentLen)}

\* scrape_with_jina(url), given the text the reader proxy answers with
RunJina ==
    /\ jina_record = None
    /\ jina_record' = Some(scrape_with_jina(content))
    /\ postcode_scores' = IF JinaReachesScoring(content)
                          THEN Some(JinaPostcodeScores(PageText(content)))
                          ELSE None
    /\ UNCHANGED <<content, listing_url, basic_record, seen, adaptive_type,
                   answer, basic_html, adaptive_html>>
    /\ UNCHANGED <<orch_vars, scraper_vars, other_vars>>

\* PropertyExtractor.extract_property(url), given the html the site answers
\* with
RunBasic ==
    /\ basic_record = None
    /\ basic_record' = Some(extract_property(content, listing_url))
    /\ seen' = IF BasicReachesScoring(content)
               THEN Some(BasicSeen(PageText(content)))
               ELSE None
    /\ UNCHANGED <<content, listing_url, jina_record, postcode_scores,
                   adaptive_type, answer, basic_html, adaptive_html>>
    /\ UNCHANGED <<orch_vars, scraper_vars, other_vars>>

NextExtract == RunJina \/ RunBasic

InitExtract ==
    /\ NoRequests
    /\ NoBrowser /\ NoLookup /\ NoPropertyData
    /\ AfterConstruction({}, 0, {})
    /\ content \in Contents
    /\ listing_url \in Urls
    /\ jina_record = None
    /\ basic_record = None
    /\ postcode_scores = None
    /\ seen = None
    /\ adaptive_type = None
    /\ answer = None
    /\ basic_html = None
    /\ adaptive_html = None

SpecExtract == InitExtract /\ [][NextExtract]_vars

(***************************************************************************)
(* The property-type rules of the three extractors, applied to a text of   *)
(* type words                                                              *)
(***************************************************************************)
\* the longest text of type words
MaxTypeLen == 2

\* type words in several letter cases, a word that is no type, and a count
\* of bedrooms
TypeTokens ==
    {Word("semi"), Word("SEMI"), Word("semi-detached"), Word("Semi-Detached"),
     Word("detached"), Word("apartment"), Word("end terrace"), Word("cottage"),
     Word("house"), Bed(3)}

\* what the title line of such a text holds
TypeTitleTokens == {Bed(2), Word("house")}

TypeContents ==
    {[title |-> t, body |-> b] :
        t \in SeqsUpTo(TypeTitleTokens, MaxTitleLen),
        b \in SeqsUpTo(TypeTokens, MaxTypeLen)}

\* adaptive_scraper.PropertyExtractor(html, url)._extract_property_type()
RunAdaptiveType ==
    /\ adaptive_type = None
    /\ adaptive_type' = Some(AdaptivePropertyType(PageText(content)))
    /\ UNCHANGED <<content, listing_url, jina_record, basic_record,
                   postcode_scores, seen, answer, basic_html, adaptive_html>>
    /\ UNCHANGED <<orch_vars, scraper_vars, other_vars>>

NextTypes == RunJina \/ RunBasic \/ RunAdaptiveType

InitTypes ==
    /\ NoRequests
    /\ NoBrowser /\ NoLookup /\ NoPropertyData
    /\ AfterConstruction({}, 0, {})
    /\ content \in TypeContents
    /\ listing_url = [properties |-> FALSE]
    /\ jina_record = None
    /\ basic_record = None
    /\ postcode_scores = None
    /\ seen = None
    /\ adaptive_type = None
    /\ answer = None
    /\ basic_html = None
    /\ adaptive_html = None

SpecTypes == InitTypes /\ [][NextTypes]_vars

(***************************************************************************)
(* The fetch of each direct backend, applied to an answer of the site, and *)
(* the extraction that follows it in extract_property                      *)
(***************************************************************************)
\* the longest body of an answer, in words
MaxWords == 2

\* an ordinary word, and words of the pages that sites block with
AnswerWords == {"listing", "Captcha", "Cloudflare", "Access Denied", "rate limit"}

\* the answers of a site: a status and a body, or an exception of requests
SiteAnswers ==
    {Response(st, b) : st \in {200, 404, 503}, b \in SeqsUpTo(AnswerWords, MaxWords)}
    \cup {RequestException("ConnectionError"), RequestException("Timeout")}

\* the block signatures of scrapling_extractor.PropertyExtractor.fetch
ScraplingBlockSignatures ==
    {"captcha", "blocked", "access denied", "rate limit", "we're sorry"}

ScraplingBlocked(text) == \E sig \in ScraplingBlockSignatures : Contains(text, sig)

\* requests.exceptions.Timeout and its base class RequestException, the two
\* except clauses of PropertyExtractor.fetch
IsRequestException(e) == e \in {"Timeout", "ConnectionError", "HTTPError"}

\* what PropertyExtractor.fetch does with an answer: raise_for_status turns an
\* error status into an HTTPError; the exceptions of requests give None, any
\* other exception leaves the function
ScraplingFetch(ans) ==
    LET exc == IF ans.kind = "exception" THEN Some(ans.exc)
               ELSE IF RaisesForStatus(ans.status) THEN Some("HTTPError")
               ELSE None
    IN  IF exc # None
        THEN IF IsRequestException(exc[1]) THEN Returns(None) ELSE Raises
        ELSE IF ScraplingBlocked(ans.text) THEN Returns(None)
        ELSE Returns(Some(ans.text))

\* the words of a body as the page the field rules read
AsPage(text) ==
    [title |-> <<>>,
     body |-> [i \in 1..Len(text) |->
                  IF text[i] = "£250,000" THEN Money(250000) ELSE Word(text[i])]]

\* extract_property: html = self.fetch(url)
ScraplingFetches ==
    /\ basic_html = None
    /\ basic_html' = Some(ScraplingFetch(answer))
    /\ UNCHANGED <<content, listing_url, jina_record, basic_record,
                   postcode_scores, seen, adaptive_type, answer, adaptive_html>>
    /\ UNCHANGED <<orch_vars, scraper_vars, other_vars>>

\* extract_property after the fetch: the record of a failed fetch when html
\* is None or empty, the record of the fields otherwise
ScraplingExtracts ==
    /\ basic_html # None
    /\ basic_html[1].kind = "return"
    /\ basic_record = None
    /\ IF HasContent(basic_html[1].val)
       THEN /\ content' = AsPage(basic_html[1].val[1])
            /\ basic_record' = Some(extract_property(AsPage(basic_html[1].val[1]), listing_url))
       ELSE /\ basic_record' = Some(FetchFailedRecord)
            /\ UNCHANGED content
    /\ UNCHANGED <<listing_url, jina_record, postcode_scores, seen, adaptive_type,
                   answer, basic_html, adaptive_html>>
    /\ UNCHANGED <<orch_vars, scraper_vars, other_vars>>

\* AdaptiveScraper.fetch, past the gate
AdaptiveFetches ==
    /\ adaptive_html = None
    /\ adaptive_html' = Some(Returns(AdaptiveFetchResult(answer)))
    /\ UNCHANGED <<content, listing_url, jina_record, basic_record,
                   postcode_scores, seen, adaptive_type, answer, basic_html>>
    /\ UNCHANGED <<orch_vars, scraper_vars, other_vars>>

NextFetch == ScraplingFetches \/ ScraplingExtracts \/ AdaptiveFetches

InitFetch ==
    /\ NoRequests
    /\ NoBrowser /\ NoLookup /\ NoPropertyData
    /\ AfterConstruction({}, 0, {})
    /\ content = [title |-> <<>>, body |-> <<>>]
    /\ listing_url = [properties |-> FALSE]
    /\ jina_record = None
    /\ basic_record = None
    /\ postcode_scores = None
    /\ seen = None
    /\ adaptive_type = None
    /\ answer \in SiteAnswers
    /\ basic_html = None
    /\ adaptive_html = None

SpecFetch == InitFetch /\ [][NextFetch]_vars

(***************************************************************************)
(* PlaywrightPropertyScraper.extract_property: the headless browser for    *)
(* the protected sites, the requests-based fetch as the fallback           *)
(***************************************************************************)
ProtectedDomains == {"zoopla.co.uk", "primelocation.com"}

\* any(domain in url.lower() for domain in [...])
needs_playwright(url) == \E domain \in ProtectedDomains : Contains(url, domain)

\* 'zoopla' in url.lower()
is_zoopla(url) == Contains(url, "zoopla.co.uk")

\* listing urls of three sites, one of them written with a capital
PlaywrightUrls ==
    {<<"https://www.", "zoopla.co.uk", "/for-sale/details/1">>,
     <<"https://www.", "Zoopla.co.uk", "/for-sale/details/1">>,
     <<"https://www.", "primelocation.com", "/for-sale/details/1">>,
     <<"https://www.", "rightmove.co.uk", "/properties/1">>}

\* what the browser ends with: None for a timeout or an error, else the
\* document of page.content(), which can be empty
BrowserOutcomes == {None, Some(<<>>), Some(<<"listing">>), Some(<<"£250,000">>)}

\* what the site answers to the fallback
FallbackAnswers ==
    {Response(200, <<"listing">>), Response(200, <<"Captcha">>), Response(200, <<>>),
     Response(503, <<"listing">>), RequestException("Timeout")}

\* _extract_with_playwright: None without Playwright, and every exception of
\* the browser is caught and gives None
_extract_with_playwright(available, gives) == IF ~available THEN None ELSE gives

\* the postcodes _extract_from_html chooses from: the matches of the pattern,
\* as written, of five characters or more that do not start with Q, V, X, Z
PlaywrightPostcodes(text) ==
    {text[i].pc : i \in {j \in PostcodePositions(text) :
                            /\ MatchesGrammar(text[j].pc, Whitespace, TRUE)
                            /\ text[j].pc[1] \notin {"Q", "V", "X", "Z"}}}

\* _extract_from_html, with the postcode that valid[0] is: the order of
\* set(all_postcodes) is not fixed.  The pages here have no <h1> and no
\* streetAddress, which the address rule for Zoopla reads
_extract_from_html(page, url, postcode) ==
    [address |-> IF is_zoopla(url) THEN None ELSE BasicAddress(page),
     postcode |-> postcode,
     price |-> BasicPrice(PageText(page)),
     property_type |-> BasicPropertyType(PageText(page)),
     bedrooms |-> BasicBedrooms(PageText(page)),
     description |-> None]

\* the record of extract_property when no fetch gave content
PlaywrightFailedRecord ==
    [address |-> None, postcode |-> None, price |-> None,
     property_type |-> None, bedrooms |-> None, description |-> None,
     error |-> Some("Failed to fetch page"), method |-> "failed"]

\* the record of extract_property for the fields of a page
WithMethod(data, method) ==
    [address |-> data.address, postcode |-> data.postcode, price |-> data.price,
     property_type |-> data.property_type, bedrooms |-> data.bedrooms,
     description |-> data.description, error |-> None, method |-> method]

\* extract_property: the browser, for a protected site when Playwright is
\* there
TryPlaywright ==
    /\ pw_at = "called"
    /\ IF needs_playwright(pw_url) /\ playwright_available
       THEN LET got == _extract_with_playwright(playwright_available, browser_gives)
            IN  /\ pw_html' = got
                /\ pw_fetches' = pw_fetches \cup {"playwright"}
                /\ used_method' = IF HasContent(got) THEN "playwright" ELSE used_method
       ELSE UNCHANGED <<pw_html, pw_fetches, used_method>>
    /\ pw_at' = "fallback"
    /\ UNCHANGED <<pw_url, playwright_available, browser_gives, pw_answer, pw_data>>
    /\ UNCHANGED <<orch_vars, scraper_vars, extract_vars, lookup_vars, cache_vars>>

\* the fallback fetched whatever the browser gave
TryFallback_always ==
    /\ pw_at = "fallback"
    /\ LET got == ScraplingFetch(pw_answer)
       IN  /\ pw_fetches' = pw_fetches \cup {"fallback"}
           /\ IF got.kind = "raise"
              THEN pw_at' = "raised" /\ UNCHANGED pw_html
              ELSE pw_at' = "extract" /\ pw_html' = got.val
    /\ UNCHANGED <<pw_url, playwright_available, browser_gives, pw_answer, used_method,
                   pw_data>>
    /\ UNCHANGED <<orch_vars, scraper_vars, extract_vars, lookup_vars, cache_vars>>

\* extract_property: if not html, self.fallback.fetch(url)
TryFallback ==
    /\ pw_at = "fallback"
    /\ IF ~HasContent(pw_html)
       THEN LET got == ScraplingFetch(pw_answer)
            IN  /\ pw_fetches' = pw_fetches \cup {"fallback"}
                /\ IF got.kind = "raise"
                   THEN pw_at' = "raised" /\ UNCHANGED pw_html
                   ELSE pw_at' = "extract" /\ pw_html' = got.val
       ELSE pw_at' = "extract" /\ UNCHANGED <<pw_html, pw_fetches>>
    /\ UNCHANGED <<pw_url, playwright_available, browser_gives, pw_answer, used_method,
                   pw_data>>
    /\ UNCHANGED <<orch_vars, scraper_vars, extract_vars, lookup_vars, cache_vars>>

\* extract_property: the record of the failure, or the fields of the html
\* with the method
PlaywrightReturns ==
    /\ pw_at = "extract"
    /\ IF ~HasContent(pw_html)
       THEN pw_data' = Some(PlaywrightFailedRecord)
       ELSE LET page == AsPage(pw_html[1])
                found == PlaywrightPostcodes(PageText(page))
            IN  \E postcode \in (IF found = {} THEN {None} ELSE {Some(fp) : fp \in found}) :
                    pw_data' = Some(WithMethod(_extract_from_html(page, pw_url, postcode),
                                               used_method))
    /\ pw_at' = "returned"
    /\ UNCHANGED <<pw_url, playwright_available, browser_gives, pw_answer, pw_html,
                   used_method, pw_fetches>>
    /\ UNCHANGED <<orch_vars, scraper_vars, extract_vars, lookup_vars, cache_vars>>

NextPlaywright == TryPlaywright \/ TryFallback \/ PlaywrightReturns

InitPlaywright ==
    /\ NoRequests
    /\ NoExtraction
    /\ NoLookup /\ NoPropertyData
    /\ AfterConstruction({}, 0, {})
    /\ pw_url \in PlaywrightUrls
    /\ playwright_available \in BOOLEAN
    /\ browser_gives \in BrowserOutcomes
    /\ pw_answer \in FallbackAnswers
    /\ pw_at = "called"
    /\ pw_html = None
    /\ used_method = "fallback"
    /\ pw_fetches = {}
    /\ pw_data = None

SpecPlaywright == InitPlaywright /\ [][NextPlaywright]_vars

(***************************************************************************)
(* check_article_4: the lookup of the outward code of a postcode in the    *)
(* table of Article 4 directions                                           *)
(***************************************************************************)
article_4_areas == {
    [code |-> <<"M", "1">>, active |-> TRUE, council |-> "Manchester City Council",
     note |-> "City centre - Article 4 HMO restrictions in force"],
    [code |-> <<"M", "2">>, active |-> TRUE, council |-> "Manchester City Council",
     note |-> "City centre - Article 4 HMO restrictions in force"],
    [code |-> <<"M", "3">>, active |-> TRUE, council |-> "Manchester City Council",
     note |-> "Castlefield/Deansgate - Article 4 in force"],
    [code |-> <<"M", "4">>, active |-> TRUE, council |-> "Manchester City Council",
     note |-> "Northern Quarter - Article 4 in force"],
    [code |-> <<"M", "5">>, active |-> TRUE, council |-> "Salford City Council",
     note |-> "Ordsall/Salford - Article 4 in force"],
    [code |-> <<"M", "6">>, active |-> TRUE, council |-> "Salford City Council",
     note |-> "Salford central - Article 4 in force"],
    [code |-> <<"M", "7">>, active |-> FALSE, council |-> "Salford City Council",
     note |-> "No Article 4 currently"],
    [code |-> <<"M", "1", "3">>, active |-> TRUE, council |-> "Manchester City Council",
     note |-> "Chorlton-on-Medlock/Victoria Park - Article 4 in force"],
    [code |-> <<"M", "1", "4">>, active |-> TRUE, council |-> "Manchester City Council",
     note |-> "Fallowfield/Moss Side/Rusholme - Article 4 in force"],
    [code |-> <<"M", "1", "5">>, active |-> TRUE, council |-> "Manchester City Council",
     note |-> "Hulme/Moss Side - Article 4 in force"],
    [code |-> <<"M", "1", "6">>, active |-> FALSE, council |-> "Trafford Council",
     note |-> "Whalley Range/Firswood - No Article 4"],
    [code |-> <<"M", "1", "9">>, active |-> TRUE, council |-> "Manchester City Council",
     note |-> "Levenshulme/Burnage - Article 4 in force"],
    [code |-> <<"M", "2", "0">>, active |-> TRUE, council |-> "Manchester City Council",
     note |-> "Didsbury/Withington - Article 4 in force"],
    [code |-> <<"M", "2", "1">>, active |-> TRUE, council |-> "Manchester City Council",
     note |-> "Chorlton-cum-Hardy - Article 4 in force"],
    [code |-> <<"M", "2", "4">>, active |-> FALSE, council |-> "Rochdale Council",
     note |-> "Middleton - No Article 4 currently"],
    [code |-> <<"M", "2", "5">>, active |-> FALSE, council |-> "Bury Council",
     note |-> "Prestwich - No Article 4 currently"],
    [code |-> <<"M", "2", "6">>, active |-> FALSE, council |-> "Bury Council",
     note |-> "No Article 4 currently"],
    [code |-> <<"M", "3", "2">>, active |-> FALSE, council |-> "Trafford Council",
     note |-> "No Article 4 currently"],
    [code |-> <<"M", "3", "3">>, active |-> FALSE, council |-> "Trafford Council",
     note |-> "Sale - No Article 4 currently"],
    [code |-> <<"M", "3", "5">>, active |-> FALSE, council |-> "Oldham Council",
     note |-> "No Article 4 currently"],
    [code |-> <<"M", "4", "3">>, active |-> FALSE, council |-> "Tameside Council",
     note |-> "No Article 4 currently"],
    [code |-> <<"M", "4", "5">>, active |-> FALSE, council |-> "Bury Council",
     note |-> "Whitefield - No Article 4 currently"],
    [code |-> <<"S", "K", "1">>, active |-> FALSE, council |-> "Stockport Council",
     note |-> "No Article 4 currently"],
    [code |-> <<"S", "K", "2">>, active |-> FALSE, council |-> "Stockport Council",
     note |-> "No Article 4 currently"],
    [code |-> <<"S", "K", "3">>, active |-> FALSE, council |-> "Stockport Council",
     note |-> "No Article 4 currently"],
    [code |-> <<"S", "K", "4">>, active |-> FALSE, council |-> "Stockport Council",
     note |-> "No Article 4 currently"],
    [code |-> <<"S", "K", "5">>, active |-> FALSE, council |-> "Stockport Council",
     note |-> "No Article 4 currently"],
    [code |-> <<"S", "K", "6">>, active |-> FALSE, council |-> "Stockport Council",
     note |-> "No Article 4 currently"],
    [code |-> <<"S", "K", "7">>, active |-> FALSE, council |-> "Stockport Council",
     note |-> "No Article 4 currently"],
    [code |-> <<"S", "K", "8">>, active |-> TRUE, council |-> "Stockport Council",
     note |-> "Cheadle/Gatley - selective licensing and Article 4 areas"],
    [code |-> <<"N", "G", "1">>, active |-> TRUE, council |-> "Nottingham City Council",
     note |-> "City Centre - Article 4 in force across most of the city"],
    [code |-> <<"N", "G", "2">>, active |-> TRUE, council |-> "Nottingham City Council",
     note |-> "West Bridgford/Meadows - Article 4 in force"],
    [code |-> <<"N", "G", "3">>, active |-> TRUE, council |-> "Nottingham City Council",
     note |-> "Sneinton/St Ann's - Article 4 in force"],
    [code |-> <<"N", "G", "5">>, active |-> TRUE, council |-> "Nottingham City Council",
     note |-> "Sherwood/Carrington - Article 4 in force"],
    [code |-> <<"N", "G", "6">>, active |-> TRUE, council |-> "Nottingham City Council",
     note |-> "Basford/Bulwell - Article 4 in force"],
    [code |-> <<"N", "G", "7">>, active |-> TRUE, council |-> "Nottingham City Council",
     note |-> "Lenton/Dunkirk/Radford - Article 4 HMO restrictions (student area)"],
    [code |-> <<"N", "G", "8">>, active |-> TRUE, council |-> "Nottingham City Council",
     note |-> "Wollaton/Bilborough - Article 4 in force"],
    [code |-> <<"N", "G", "9">>, active |-> TRUE, council |-> "Broxtowe Borough Council",
     note |-> "Beeston - Article 4 in force (student area)"],
    [code |-> <<"N", "G", "1", "0">>, active |-> TRUE, council |-> "Erewash Borough Council",
     note |-> "Long Eaton - Article 4 in force"],
    [code |-> <<"N", "G", "1", "1">>, active |-> TRUE, council |-> "Nottingham City Council",
     note |-> "Clifton/Ruddington - Article 4 in force"],
    [code |-> <<"O", "X", "1">>, active |-> TRUE, council |-> "Oxford City Council",
     note |-> "City Centre/Cowley Road - Article 4 HMO restrictions across most of Oxford"],
    [code |-> <<"O", "X", "2">>, active |-> TRUE, council |-> "Oxford City Council",
     note |-> "Headington/Wolvercote - Article 4 in force"],
    [code |-> <<"O", "X", "3">>, active |-> TRUE, council |-> "Oxford City Council",
     note |-> "Marston/Barton - Article 4 in force"],
    [code |-> <<"O", "X", "4">>, active |-> TRUE, council |-> "Oxford City Council",
     note |-> "Littlemore/Blackbird Leys - Article 4 in force"],
    [code |-> <<"L", "S", "2">>, active |-> TRUE, council |-> "Leeds City Council",
     note |-> "Burley/Hyde Park - Article 4 HMO restrictions (student area)"],
    [code |-> <<"L", "S", "3">>, active |-> TRUE, council |-> "Leeds City Council",
     note |-> "Burley/Hyde Park - Article 4 HMO restrictions (student area)"],
    [code |-> <<"L", "S", "4">>, active |-> TRUE, council |-> "Leeds City Council",
     note |-> "Kirkstall/Burley - Article 4 in force"],
    [code |-> <<"L", "S", "5">>, active |-> TRUE, council |-> "Leeds City Council",
     note |-> "Kirkstall - Article 4 in force"],
    [code |-> <<"L", "S", "6">>, active |-> TRUE, council |-> "Leeds City Council",
     note |-> "Headingley/Hyde Park - Article 4 HMO restrictions (student area)"],
    [code |-> <<"L", "S", "7">>, active |-> TRUE, council |-> "Leeds City Council",
     note |-> "Chapel Allerton/Scott Hall - Article 4 in force"],
    [code |-> <<"L", "S", "8">>, active |-> FALSE, council |-> "Leeds City Council",
     note |-> "Roundhay/Harehills - No Article 4 currently"],
    [code |-> <<"S", "1">>, active |-> TRUE, council |-> "Sheffield City Council",
     note |-> "City Centre - Article 4 HMO restrictions in force"],
    [code |-> <<"S", "2">>, active |-> TRUE, council |-> "Sheffield City Council",
     note |-> "Heeley/Manor - Article 4 in force"],
    [code |-> <<"S", "3">>, active |-> TRUE, council |-> "Sheffield City Council",
     note |-> "Burngreave/Walkley - Article 4 in force"],
    [code |-> <<"S", "1", "0">>, active |-> TRUE, council |-> "Sheffield City Council",
     note |-> "Broomhill/Crookes - Article 4 HMO restrictions (student area)"],
    [code |-> <<"S", "1", "1">>, active |-> TRUE, council |-> "Sheffield City Council",
     note |-> "Ecclesall/Nether Edge - Article 4 in force"],
    [code |-> <<"B", "S", "1">>, active |-> TRUE, council |-> "Bristol City Council",
     note |-> "City Centre/Clifton - Article 4 HMO restrictions in force"],
    [code |-> <<"B", "S", "2">>, active |-> TRUE, council |-> "Bristol City Council",
     note |-> "St Pauls/Easton - Article 4 in force"],
    [code |-> <<"B", "S", "3">>, active |-> TRUE, council |-> "Bristol City Council",
     note |-> "Bedminster/Southville - Article 4 in force"],
    [code |-> <<"B", "S", "5">>, active |-> TRUE, council |-> "Bristol City Council",
     note |-> "Easton/St George - Article 4 in force"],
    [code |-> <<"B", "S", "6">>, active |-> TRUE, council |-> "Bristol City Council",
     note |-> "Redland/Cotham - Article 4 HMO restrictions"],
    [code |-> <<"B", "S", "7">>, active |-> TRUE, council |-> "Bristol City Council",
     note |-> "Horfield/Bishopston - Article 4 in force"],
    [code |-> <<"B", "S", "8">>, active |-> TRUE, council |-> "Bristol City Council",
     note |-> "Clifton/Hotwells - Article 4 HMO restrictions"],
    [code |-> <<"B", "5">>, active |-> TRUE, council |-> "Birmingham City Council",
     note |-> "Digbeth/Highgate - Article 4 HMO restrictions"],
    [code |-> <<"B", "1", "1">>, active |-> TRUE, council |-> "Birmingham City Council",
     note |-> "Sparkhill/Tyseley - Article 4 in force"],
    [code |-> <<"B", "1", "2">>, active |-> TRUE, council |-> "Birmingham City Council",
     note |-> "Balsall Heath/Sparkbrook - Article 4 in force"],
    [code |-> <<"B", "1", "5">>, active |-> TRUE, council |-> "Birmingham City Council",
     note |-> "Edgbaston - Article 4 HMO restrictions (student/professional area)"],
    [code |-> <<"B", "1", "6">>, active |-> TRUE, council |-> "Birmingham City Council",
     note |-> "Ladywood/Edgbaston - Article 4 in force"],
    [code |-> <<"B", "1", "7">>, active |-> TRUE, council |-> "Birmingham City Council",
     note |-> "Harborne - Article 4 in force"],
    [code |-> <<"B", "2", "9">>, active |-> TRUE, council |-> "Birmingham City Council",
     note |-> "Selly Oak/Bournbrook - Article 4 HMO restrictions (heavy student area)"],
    [code |-> <<"B", "3", "0">>, active |-> TRUE, council |-> "Birmingham City Council",
     note |-> "Bournville/Stirchley - Article 4 in force"],
    [code |-> <<"S", "O", "1", "4">>, active |-> TRUE, council |-> "Southampton City Council",
     note |-> "City Centre/St Mary's - Article 4 HMO restrictions"],
    [code |-> <<"S", "O", "1", "5">>, active |-> TRUE, council |-> "Southampton City Council",
     note |-> "Freemantle/Shirley - Article 4 in force"],
    [code |-> <<"S", "O", "1", "6">>, active |-> TRUE, council |-> "Southampton City Council",
     note |-> "Bassett/Rownhams - Article 4 in force"],
    [code |-> <<"S", "O", "1", "7">>, active |-> TRUE, council |-> "Southampton City Council",
     note |-> "Portswood/Highfield - Article 4 HMO restrictions (university area)"],
    [code |-> <<"P", "O", "1">>, active |-> TRUE, council |-> "Portsmouth City Council",
     note |-> "City Centre/Portsea - Article 4 HMO restrictions in force"],
    [code |-> <<"P", "O", "2">>, active |-> TRUE, council |-> "Portsmouth City Council",
     note |-> "Cosham/Hilsea - Article 4 in force"],
    [code |-> <<"P", "O", "3">>, active |-> TRUE, council |-> "Portsmouth City Council",
     note |-> "Copnor/Buckland - Article 4 in force"],
    [code |-> <<"P", "O", "4">>, active |-> TRUE, council |-> "Portsmouth City Council",
     note |-> "Southsea/Eastney - Article 4 HMO restrictions"],
    [code |-> <<"P", "O", "5">>, active |-> TRUE, council |-> "Portsmouth City Council",
     note |-> "Southsea - Article 4 in force"],
    [code |-> <<"P", "O", "6">>, active |-> TRUE, council |-> "Portsmouth City Council",
     note |-> "Cosham - Article 4 in force"],
    [code |-> <<"L", "1">>, active |-> TRUE, council |-> "Liverpool City Council",
     note |-> "City Centre - Article 4 HMO restrictions"],
    [code |-> <<"L", "6">>, active |-> TRUE, council |-> "Liverpool City Council",
     note |-> "Everton/Kensington - Article 4 in force"],
    [code |-> <<"L", "7">>, active |-> TRUE, council |-> "Liverpool City Council",
     note |-> "Edge Hill/Fairfield - Article 4 HMO restrictions"],
    [code |-> <<"L", "8">>, active |-> TRUE, council |-> "Liverpool City Council",
     note |-> "Dingle/Toxteth - Article 4 in force"],
    [code |-> <<"L", "1", "5">>, active |-> TRUE, council |-> "Liverpool City Council",
     note |-> "Wavertree/Picton - Article 4 HMO restrictions"],
    [code |-> <<"L", "1", "7">>, active |-> TRUE, council |-> "Liverpool City Council",
     note |-> "Aigburth/Garston - Article 4 in force"],
    [code |-> <<"L", "1", "8">>, active |-> FALSE, council |-> "Liverpool City Council",
     note |-> "Allerton/Mossley Hill - No Article 4 currently"],
    [code |-> <<"N", "E", "1">>, active |-> TRUE, council |-> "Newcastle City Council",
     note |-> "City Centre - Article 4 HMO restrictions in force"],
    [code |-> <<"N", "E", "2">>, active |-> TRUE, council |-> "Newcastle City Council",
     note |-> "Jesmond - Article 4 HMO restrictions (professional/student area)"],
    [code |-> <<"N", "E", "4">>, active |-> TRUE, council |-> "Newcastle City Council",
     note |-> "Fenham/Benwell - Article 4 in force"],
    [code |-> <<"N", "E", "6">>, active |-> TRUE, council |-> "Newcastle City Council",
     note |-> "Walker/Byker - Article 4 in force"],
    [code |-> <<"B", "N", "1">>, active |-> TRUE, council |-> "Brighton & Hove City Council",
     note |-> "City Centre/Kemptown - Article 4 HMO restrictions in force"],
    [code |-> <<"B", "N", "2">>, active |-> TRUE, council |-> "Brighton & Hove City Council",
     note |-> "Brighton/Rottingdean - Article 4 in force"],
    [code |-> <<"B", "N", "3">>, active |-> TRUE, council |-> "Brighton & Hove City Council",
     note |-> "Hove - Article 4 in force"],
    [code |-> <<"C", "V", "1">>, active |-> TRUE, council |-> "Coventry City Council",
     note |-> "City Centre - Article 4 HMO restrictions in force"],
    [code |-> <<"C", "V", "2">>, active |-> TRUE, council |-> "Coventry City Council",
     note |-> "Stoke/Wyken - Article 4 in force"],
    [code |-> <<"C", "V", "5">>, active |-> TRUE, council |-> "Coventry City Council",
     note |-> "Earlsdon/Canley - Article 4 in force (student area)"],
    [code |-> <<"C", "V", "6">>, active |-> TRUE, council |-> "Coventry City Council",
     note |-> "Radford/Holbrooks - Article 4 in force"],
    [code |-> <<"L", "E", "1">>, active |-> TRUE, council |-> "Leicester City Council",
     note |-> "City Centre - Article 4 HMO restrictions in force"],
    [code |-> <<"L", "E", "2">>, active |-> TRUE, council |-> "Leicester City Council",
     note |-> "Aylestone/Knighton - Article 4 in force"],
    [code |-> <<"L", "E", "3">>, active |-> TRUE, council |-> "Leicester City Council",
     note |-> "Braunstone/Western Park - Article 4 in force"],
    [code |-> <<"L", "E", "4">>, active |-> TRUE, council |-> "Leicester City Council",
     note |-> "Belgrave/Beaumont Leys - Article 4 in force"],
    [code |-> <<"L", "E", "5">>, active |-> TRUE, council |-> "Leicester City Council",
     note |-> "Evington/Humberstone - Article 4 in force"],
    [code |-> <<"C", "B", "1">>, active |-> TRUE, council |-> "Cambridge City Council",
     note |-> "City Centre/Mill Road - Article 4 HMO restrictions in force"],
    [code |-> <<"C", "B", "2">>, active |-> TRUE, council |-> "Cambridge City Council",
     note |-> "Central Cambridge - Article 4 in force"],
    [code |-> <<"C", "B", "3">>, active |-> TRUE, council |-> "Cambridge City Council",
     note |-> "Newnham/Grantchester - Article 4 in force"],
    [code |-> <<"C", "B", "4">>, active |-> TRUE, council |-> "Cambridge City Council",
     note |-> "Chesterton/King's Hedges - Article 4 in force"],
    [code |-> <<"Y", "O", "1">>, active |-> TRUE, council |-> "City of York Council",
     note |-> "City Centre - Article 4 HMO restrictions in force"],
    [code |-> <<"Y", "O", "1", "0">>, active |-> TRUE, council |-> "City of York Council",
     note |-> "Fishergate/Fulford - Article 4 in force (student area)"],
    [code |-> <<"Y", "O", "2", "4">>, active |-> TRUE, council |-> "City of York Council",
     note |-> "Acomb/Dringhouses - Article 4 in force"],
    [code |-> <<"Y", "O", "3", "0">>, active |-> TRUE, council |-> "City of York Council",
     note |-> "Skelton/Rawcliffe - Article 4 in force"],
    [code |-> <<"Y", "O", "3", "1">>, active |-> TRUE, council |-> "City of York Council",
     note |-> "Heworth/Huntington - Article 4 in force"],
    [code |-> <<"D", "E", "1">>, active |-> TRUE, council |-> "Derby City Council",
     note |-> "City Centre - Article 4 HMO restrictions in force"],
    [code |-> <<"D", "E", "2", "1">>, active |-> TRUE, council |-> "Derby City Council",
     note |-> "Chaddesden/Oakwood - Article 4 in force"],
    [code |-> <<"D", "E", "2", "2">>, active |-> TRUE, council |-> "Derby City Council",
     note |-> "Allestree/Darley Abbey - Article 4 in force"],
    [code |-> <<"D", "E", "2", "3">>, active |-> TRUE, council |-> "Derby City Council",
     note |-> "Normanton/Sunny Hill - Article 4 in force"],
    [code |-> <<"W", "V", "1">>, active |-> TRUE, council |-> "City of Wolverhampton",
     note |-> "City Centre - Article 4 HMO restrictions in force"],
    [code |-> <<"W", "V", "2">>, active |-> TRUE, council |-> "City of Wolverhampton",
     note |-> "Parkfields/Heath Town - Article 4 in force"],
    [code |-> <<"W", "V", "3">>, active |-> TRUE, council |-> "City of Wolverhampton",
     note |-> "Tettenhall/Newbridge - Article 4 in force"],
    [code |-> <<"H", "U", "1">>, active |-> TRUE, council |-> "Kingston upon Hull Council",
     note |-> "City Centre - Article 4 HMO restrictions in force"],
    [code |-> <<"H", "U", "3">>, active |-> TRUE, council |-> "Kingston upon Hull Council",
     note |-> "Hessle Road/Anlaby - Article 4 in force"],
    [code |-> <<"H", "U", "5">>, active |-> TRUE, council |-> "Kingston upon Hull Council",
     note |-> "Newland/Beverley Road - Article 4 in force (student area)"],
    [code |-> <<"E", "X", "1">>, active |-> TRUE, council |-> "Exeter City Council",
     note |-> "City Centre - Article 4 HMO restrictions in force"],
    [code |-> <<"E", "X", "2">>, active |-> TRUE, council |-> "Exeter City Council",
     note |-> "Heavitree/St Thomas - Article 4 in force"],
    [code |-> <<"E", "X", "4">>, active |-> TRUE, council |-> "Exeter City Council",
     note |-> "Pennsylvania/St David's - Article 4 in force (student area)"],
    [code |-> <<"P", "L", "1">>, active |-> TRUE, council |-> "Plymouth City Council",
     note |-> "City Centre/Stonehouse - Article 4 HMO restrictions in force"],
    [code |-> <<"P", "L", "4">>, active |-> TRUE, council |-> "Plymouth City Council",
     note |-> "Lipson/Prince Rock - Article 4 in force"],
    [code |-> <<"B", "H", "1">>, active |-> TRUE, council |-> "Bournemouth, Christchurch & Poole Council",
     note |-> "Town Centre - Article 4 HMO restrictions in force"],
    [code |-> <<"B", "H", "5">>, active |-> TRUE, council |-> "Bournemouth, Christchurch & Poole Council",
     note |-> "Boscombe - Article 4 in force"],
    [code |-> <<"B", "H", "8">>, active |-> TRUE, council |-> "Bournemouth, Christchurch & Poole Council",
     note |-> "Charminster - Article 4 in force"],
    [code |-> <<"R", "G", "1">>, active |-> TRUE, council |-> "Reading Borough Council",
     note |-> "Town Centre - Article 4 HMO restrictions in force"],
    [code |-> <<"R", "G", "2">>, active |-> TRUE, council |-> "Reading Borough Council",
     note |-> "Whitley/Coley - Article 4 in force"],
    [code |-> <<"L", "U", "1">>, active |-> TRUE, council |-> "Luton Borough Council",
     note |-> "Town Centre - Article 4 HMO restrictions in force"],
    [code |-> <<"L", "U", "2">>, active |-> TRUE, council |-> "Luton Borough Council",
     note |-> "Bury Park/Leagrave - Article 4 in force"],
    [code |-> <<"L", "U", "3">>, active |-> TRUE, council |-> "Luton Borough Council",
     note |-> "Limbury/Sundon Park - Article 4 in force"],
    [code |-> <<"S", "L", "1">>, active |-> TRUE, council |-> "Slough Borough Council",
     note |-> "Town Centre - Article 4 HMO restrictions in force"],
    [code |-> <<"S", "L", "2">>, active |-> TRUE, council |-> "Slough Borough Council",
     note |-> "Farnham Royal/Slough - Article 4 in force"],
    [code |-> <<"P", "E", "1">>, active |-> TRUE, council |-> "Peterborough City Council",
     note |-> "City Centre - Article 4 HMO restrictions in force"],
    [code |-> <<"P", "E", "2">>, active |-> TRUE, council |-> "Peterborough City Council",
     note |-> "Dogsthorpe/Werrington - Article 4 in force"],
    [code |-> <<"N", "R", "1">>, active |-> TRUE, council |-> "Norwich City Council",
     note |-> "City Centre - Article 4 HMO restrictions in force"],
    [code |-> <<"N", "R", "2">>, active |-> TRUE, council |-> "Norwich City Council",
     note |-> "Golden Triangle/Eaton - Article 4 in force"],
    [code |-> <<"N", "R", "3">>, active |-> TRUE, council |-> "Norwich City Council",
     note |-> "Dereham Road/Hellesdon - Article 4 in force"],
    [code |-> <<"I", "P", "1">>, active |-> TRUE, council |-> "Ipswich Borough Council",
     note |-> "Town Centre - Article 4 HMO restrictions in force"],
    [code |-> <<"I", "P", "2">>, active |-> TRUE, council |-> "Ipswich Borough Council",
     note |-> "Chantry/Belstead - Article 4 in force"],
    [code |-> <<"I", "P", "4">>, active |-> TRUE, council |-> "Ipswich Borough Council",
     note |-> "Rushmere/Whitton - Article 4 in force"],
    [code |-> <<"S", "R", "1">>, active |-> TRUE, council |-> "Sunderland City Council",
     note |-> "City Centre - Article 4 HMO restrictions in force"],
    [code |-> <<"S", "R", "2">>, active |-> TRUE, council |-> "Sunderland City Council",
     note |-> "Hendon/Thornhill - Article 4 in force"],
    [code |-> <<"S", "R", "4">>, active |-> TRUE, council |-> "Sunderland City Council",
     note |-> "Millfield/Pallion - Article 4 in force"],
    [code |-> <<"T", "S", "1">>, active |-> TRUE, council |-> "Middlesbrough Council",
     note |-> "Town Centre - Article 4 HMO restrictions in force"],
    [code |-> <<"T", "S", "5">>, active |-> TRUE, council |-> "Middlesbrough Council",
     note |-> "Acklam/Linthorpe - Article 4 in force"],
    [code |-> <<"G", "L", "5", "0">>, active |-> TRUE, council |-> "Cheltenham Borough Council",
     note |-> "Town Centre/Montpellier - Article 4 HMO restrictions in force"],
    [code |-> <<"G", "L", "5", "1">>, active |-> TRUE, council |-> "Cheltenham Borough Council",
     note |-> "Hesters Way/Up Hatherley - Article 4 in force"],
    [code |-> <<"G", "L", "5", "2">>, active |-> TRUE, council |-> "Cheltenham Borough Council",
     note |-> "Prestbury/Pittville - Article 4 in force"],
    [code |-> <<"G", "L", "1">>, active |-> TRUE, council |-> "Gloucester City Council",
     note |-> "City Centre - Article 4 HMO restrictions in force"],
    [code |-> <<"G", "L", "2">>, active |-> TRUE, council |-> "Gloucester City Council",
     note |-> "Gloucester/Quedgeley - Article 4 in force"],
    [code |-> <<"S", "T", "1">>, active |-> TRUE, council |-> "Stoke-on-Trent City Council",
     note |-> "Hanley/Stoke Centre - Article 4 HMO restrictions in force"],
    [code |-> <<"S", "T", "4">>, active |-> TRUE, council |-> "Stoke-on-Trent City Council",
     note |-> "Stoke/Fenton - Article 4 in force"],
    [code |-> <<"M", "K", "4", "0">>, active |-> TRUE, council |-> "Bedford Borough Council",
     note |-> "Bedford Town Centre - Article 4 HMO restrictions in force"],
    [code |-> <<"M", "K", "4", "1">>, active |-> TRUE, council |-> "Bedford Borough Council",
     note |-> "Clapham/Goldington - Article 4 in force"],
    [code |-> <<"M", "K", "4", "2">>, active |-> TRUE, council |-> "Bedford Borough Council",
     note |-> "Kempston - Article 4 in force"],
    [code |-> <<"N", "N", "1">>, active |-> TRUE, council |-> "West Northamptonshire Council",
     note |-> "Town Centre - Article 4 HMO restrictions in force"],
    [code |-> <<"N", "N", "4">>, active |-> TRUE, council |-> "West Northamptonshire Council",
     note |-> "Wootton/Hardingstone - Article 4 in force"],
    [code |-> <<"C", "F", "1", "0">>, active |-> TRUE, council |-> "Cardiff Council",
     note |-> "Cardiff City Centre - Article 4 HMO restrictions in force"],
    [code |-> <<"C", "F", "2", "4">>, active |-> TRUE, council |-> "Cardiff Council",
     note |-> "Roath/Splott - Article 4 HMO restrictions (student area)"],
    [code |-> <<"C", "F", "1", "4">>, active |-> TRUE, council |-> "Cardiff Council",
     note |-> "Whitchurch/Heath - Article 4 in force"],
    [code |-> <<"S", "A", "1">>, active |-> TRUE, council |-> "Swansea Council",
     note |-> "City Centre/SA1 Marina - Article 4 HMO restrictions in force"],
    [code |-> <<"S", "A", "2">>, active |-> TRUE, council |-> "Swansea Council",
     note |-> "Sketty/Uplands - Article 4 in force (student area)"],
    [code |-> <<"N", "2">>, active |-> TRUE, council |-> "London Borough of Barnet",
     note |-> "East Finchley - Article 4 HMO restrictions in force"],
    [code |-> <<"N", "3">>, active |-> TRUE, council |-> "London Borough of Barnet",
     note |-> "Finchley Central - Article 4 in force"],
    [code |-> <<"N", "1", "2">>, active |-> TRUE, council |-> "London Borough of Barnet",
     note |-> "North Finchley - Article 4 in force"],
    [code |-> <<"N", "W", "4">>, active |-> TRUE, council |-> "London Borough of Barnet",
     note |-> "Brent Cross/Hendon - Article 4 in force"],
    [code |-> <<"N", "W", "7">>, active |-> TRUE, council |-> "London Borough of Barnet",
     note |-> "Mill Hill - Article 4 in force"],
    [code |-> <<"H", "A", "0">>, active |-> TRUE, council |-> "London Borough of Brent",
     note |-> "Wembley - Article 4 HMO restrictions in force"],
    [code |-> <<"H", "A", "9">>, active |-> TRUE, council |-> "London Borough of Brent",
     note |-> "Wembley Central - Article 4 in force"],
    [code |-> <<"N", "W", "2">>, active |-> TRUE, council |-> "London Borough of Brent",
     note |-> "Cricklewood - Article 4 in force"],
    [code |-> <<"N", "W", "1", "0">>, active |-> TRUE, council |-> "London Borough of Brent",
     note |-> "Harlesden/Willesden - Article 4 HMO restrictions"],
    [code |-> <<"N", "W", "1">>, active |-> TRUE, council |-> "London Borough of Camden",
     note |-> "Camden Town/Primrose Hill - Article 4 HMO restrictions"],
    [code |-> <<"N", "W", "3">>, active |-> TRUE, council |-> "London Borough of Camden",
     note |-> "Hampstead/Swiss Cottage - Article 4 in force"],
    [code |-> <<"N", "W", "5">>, active |-> TRUE, council |-> "London Borough of Camden",
     note |-> "Kentish Town/Gospel Oak - Article 4 in force"],
    [code |-> <<"N", "W", "6">>, active |-> TRUE, council |-> "London Borough of Camden",
     note |-> "West Hampstead/Kilburn - Article 4 in force"],
    [code |-> <<"W", "3">>, active |-> TRUE, council |-> "London Borough of Ealing",
     note |-> "Acton - Article 4 HMO restrictions in force"],
    [code |-> <<"W", "5">>, active |-> TRUE, council |-> "London Borough of Ealing",
     note |-> "Ealing - Article 4 in force"],
    [code |-> <<"W", "7">>, active |-> TRUE, council |-> "London Borough of Ealing",
     note |-> "Hanwell - Article 4 in force"],
    [code |-> <<"W", "1", "3">>, active |-> TRUE, council |-> "London Borough of Ealing",
     note |-> "West Ealing - Article 4 in force"],
    [code |-> <<"E", "2">>, active |-> TRUE, council |-> "London Borough of Hackney",
     note |-> "Bethnal Green/Hackney - Article 4 HMO restrictions"],
    [code |-> <<"E", "5">>, active |-> TRUE, council |-> "London Borough of Hackney",
     note |-> "Clapton - Article 4 in force"],
    [code |-> <<"E", "8">>, active |-> TRUE, council |-> "London Borough of Hackney",
     note |-> "Hackney/London Fields - Article 4 in force"],
    [code |-> <<"E", "9">>, active |-> TRUE, council |-> "London Borough of Hackney",
     note |-> "Hackney Wick/Homerton - Article 4 in force"],
    [code |-> <<"N", "1", "6">>, active |-> TRUE, council |-> "London Borough of Hackney",
     note |-> "Stoke Newington - Article 4 in force"],
    [code |-> <<"N", "4">>, active |-> TRUE, council |-> "London Borough of Haringey",
     note |-> "Finsbury Park/Manor House - Article 4 HMO restrictions"],
    [code |-> <<"N", "8">>, active |-> TRUE, council |-> "London Borough of Haringey",
     note |-> "Crouch End/Hornsey - Article 4 in force"],
    [code |-> <<"N", "1", "5">>, active |-> TRUE, council |-> "London Borough of Haringey",
     note |-> "Seven Sisters/South Tottenham - Article 4 in force"],
    [code |-> <<"N", "1", "7">>, active |-> TRUE, council |-> "London Borough of Haringey",
     note |-> "Tottenham - Article 4 in force"],
    [code |-> <<"N", "2", "2">>, active |-> TRUE, council |-> "London Borough of Haringey",
     note |-> "Wood Green - Article 4 in force"],
    [code |-> <<"E", "C", "1">>, active |-> TRUE, council |-> "London Borough of Islington",
     note |-> "Clerkenwell/Barbican - Article 4 HMO restrictions"],
    [code |-> <<"N", "1">>, active |-> TRUE, council |-> "London Borough of Islington",
     note |-> "Islington/Angel - Article 4 HMO restrictions"],
    [code |-> <<"N", "7">>, active |-> TRUE, council |-> "London Borough of Islington",
     note |-> "Holloway - Article 4 in force"],
    [code |-> <<"N", "1", "9">>, active |-> TRUE, council |-> "London Borough of Islington",
     note |-> "Upper Holloway - Article 4 in force"],
    [code |-> <<"S", "E", "1", "1">>, active |-> TRUE, council |-> "London Borough of Lambeth",
     note |-> "Kennington/Vauxhall - Article 4 HMO restrictions"],
    [code |-> <<"S", "E", "2", "4">>, active |-> TRUE, council |-> "London Borough of Lambeth",
     note |-> "Herne Hill/Tulse Hill - Article 4 in force"],
    [code |-> <<"S", "W", "2">>, active |-> TRUE, council |-> "London Borough of Lambeth",
     note |-> "Brixton Hill/Streatham Hill - Article 4 in force"],
    [code |-> <<"S", "W", "4">>, active |-> TRUE, council |-> "London Borough of Lambeth",
     note |-> "Clapham - Article 4 HMO restrictions"],
    [code |-> <<"S", "W", "9">>, active |-> TRUE, council |-> "London Borough of Lambeth",
     note |-> "Stockwell/Brixton - Article 4 in force"],
    [code |-> <<"S", "E", "4">>, active |-> TRUE, council |-> "London Borough of Lewisham",
     note |-> "Brockley/Crofton Park - Article 4 in force"],
    [code |-> <<"S", "E", "6">>, active |-> TRUE, council |-> "London Borough of Lewisham",
     note |-> "Catford/Bellingham - Article 4 in force"],
    [code |-> <<"S", "E", "8">>, active |-> TRUE, council |-> "London Borough of Lewisham",
     note |-> "Deptford - Article 4 in force"],
    [code |-> <<"S", "E", "1", "2">>, active |-> TRUE, council |-> "London Borough of Lewisham",
     note |-> "Lee/Grove Park - Article 4 in force"],
    [code |-> <<"S", "E", "1", "3">>, active |-> TRUE, council |-> "London Borough of Lewisham",
     note |-> "Lewisham/Hither Green - Article 4 in force"],
    [code |-> <<"S", "E", "2", "3">>, active |-> TRUE, council |-> "London Borough of Lewisham",
     note |-> "Forest Hill - Article 4 in force"],
    [code |-> <<"E", "6">>, active |-> TRUE, council |-> "London Borough of Newham",
     note |-> "East Ham/Beckton - Article 4 HMO restrictions"],
    [code |-> <<"E", "7">>, active |-> TRUE, council |-> "London Borough of Newham",
     note |-> "Forest Gate - Article 4 in force"],
    [code |-> <<"E", "1", "2">>, active |-> TRUE, council |-> "London Borough of Newham",
     note |-> "Manor Park - Article 4 in force"],
    [code |-> <<"E", "1", "3">>, active |-> TRUE, council |-> "London Borough of Newham",
     note |-> "Plaistow/West Ham - Article 4 in force"],
    [code |-> <<"E", "1", "5">>, active |-> TRUE, council |-> "London Borough of Newham",
     note |-> "Stratford - Article 4 in force"],
    [code |-> <<"E", "1", "6">>, active |-> TRUE, council |-> "London Borough of Newham",
     note |-> "Custom House/Canning Town - Article 4 in force"],
    [code |-> <<"I", "G", "1">>, active |-> TRUE, council |-> "London Borough of Redbridge",
     note |-> "Ilford - Article 4 HMO restrictions in force"],
    [code |-> <<"I", "G", "2">>, active |-> TRUE, council |-> "London Borough of Redbridge",
     note |-> "Gants Hill/Newbury Park - Article 4 in force"],
    [code |-> <<"I", "G", "3">>, active |-> TRUE, council |-> "London Borough of Redbridge",
     note |-> "Seven Kings - Article 4 in force"],
    [code |-> <<"I", "G", "4">>, active |-> FALSE, council |-> "London Borough of Redbridge",
     note |-> "Redbridge/Barkingside - No Article 4 currently"],
    [code |-> <<"S", "E", "1">>, active |-> TRUE, council |-> "London Borough of Southwark",
     note |-> "London Bridge/Borough - Article 4 HMO restrictions"],
    [code |-> <<"S", "E", "5">>, active |-> TRUE, council |-> "London Borough of Southwark",
     note |-> "Camberwell/Burgess Park - Article 4 in force"],
    [code |-> <<"S", "E", "1", "5">>, active |-> TRUE, council |-> "London Borough of Southwark",
     note |-> "Peckham/Nunhead - Article 4 in force"],
    [code |-> <<"S", "E", "1", "6">>, active |-> TRUE, council |-> "London Borough of Southwark",
     note |-> "Bermondsey/Rotherhithe - Article 4 in force"],
    [code |-> <<"S", "E", "1", "7">>, active |-> TRUE, council |-> "London Borough of Southwark",
     note |-> "Walworth/Elephant - Article 4 in force"],
    [code |-> <<"S", "E", "2", "2">>, active |-> TRUE, council |-> "London Borough of Southwark",
     note |-> "East Dulwich - Article 4 in force"],
    [code |-> <<"E", "1">>, active |-> TRUE, council |-> "London Borough of Tower Hamlets",
     note |-> "Whitechapel/Stepney - Article 4 HMO restrictions"],
    [code |-> <<"E", "3">>, active |-> TRUE, council |-> "London Borough of Tower Hamlets",
     note |-> "Bow/Bromley-by-Bow - Article 4 in force"],
    [code |-> <<"E", "1", "4">>, active |-> TRUE, council |-> "London Borough of Tower Hamlets",
     note |-> "Poplar/Isle of Dogs - Article 4 in force"],
    [code |-> <<"E", "4">>, active |-> TRUE, council |-> "London Borough of Waltham Forest",
     note |-> "Chingford - Article 4 HMO restrictions"],
    [code |-> <<"E", "1", "0">>, active |-> TRUE, council |-> "London Borough of Waltham Forest",
     note |-> "Leyton - Article 4 in force"],
    [code |-> <<"E", "1", "1">>, active |-> TRUE, council |-> "London Borough of Waltham Forest",
     note |-> "Leytonstone/Wanstead - Article 4 in force"],
    [code |-> <<"E", "1", "7">>, active |-> TRUE, council |-> "London Borough of Waltham Forest",
     note |-> "Walthamstow - Article 4 HMO restrictions"],
    [code |-> <<"S", "W", "1", "1">>, active |-> TRUE, council |-> "London Borough of Wandsworth",
     note |-> "Battersea/Clapham Junction - Article 4 HMO restrictions"],
    [code |-> <<"S", "W", "1", "2">>, active |-> TRUE, council |-> "London Borough of Wandsworth",
     note |-> "Balham - Article 4 in force"],
    [code |-> <<"S", "W", "1", "5">>, active |-> TRUE, council |-> "London Borough of Wandsworth",
     note |-> "Putney - Article 4 in force"],
    [code |-> <<"S", "W", "1", "7">>, active |-> TRUE, council |-> "London Borough of Wandsworth",
     note |-> "Tooting - Article 4 in force"],
    [code |-> <<"S", "W", "1", "8">>, active |-> TRUE, council |-> "London Borough of Wandsworth",
     note |-> "Earlsfield/Wandsworth - Article 4 in force"]
}

Article4Keys == {e.code : e \in article_4_areas}

\* article_4_areas[candidate]
Article4Info(candidate) == CHOOSE e \in article_4_areas : e.code = candidate

\* str.upper() on the characters of a postcode
Upper(c) ==
    CASE c = "m" -> "M"
      [] c = "s" -> "S"
      [] c = "w" -> "W"
      [] c = "e" -> "E"
      [] c = "h" -> "H"
      [] OTHER -> c

\* str.strip(): without the spaces at both ends
Strip(str) ==
    LET ink == {i \in 1..Len(str) : str[i] # " "}
    IN  IF ink = {} THEN <<>> ELSE SubSeq(str, Min(ink), Max(ink))

UnconfirmedNote ==
    "This postcode area is not in our Article 4 database - status unconfirmed."

check_article_4(postcode_arg) ==
    LET stripped == Strip(postcode_arg)
        postcode == [i \in 1..Len(stripped) |-> Upper(stripped[i])]
        area_code == IF \E i \in 1..Len(postcode) : postcode[i] = " "
                     THEN FirstWord(postcode) ELSE postcode
        candidate(length) == SubSeq(area_code, 1, Min({length, Len(area_code)}))
        found == {length \in {5, 4, 3, 2} : candidate(length) \in Article4Keys}
    IN  IF found # {}
        THEN LET info == Article4Info(candidate(Max(found)))
             IN  [is_article_4 |-> info.active,
                  known |-> TRUE,
                  council |-> info.council,
                  note |-> info.note,
                  area_code |-> candidate(Max(found)),
                  advice |-> IF info.active
                             THEN "Planning permission required"
                             ELSE "No Article 4 restrictions"]
        ELSE [is_article_4 |-> FALSE,
              known |-> FALSE,
              council |-> "Local Council",
              note |-> UnconfirmedNote,
              area_code |-> area_code,
              advice |-> "Article 4 status not confirmed"]

\* the areas of the postcodes that are asked about, one in small letters
LookupAreas == {<<"M">>, <<"m">>, <<"S", "W">>, <<"B">>}

\* outward codes: an area and one or two digits
LookupOutwards ==
    {a \o <<d>> : a \in LookupAreas, d \in Digits}
    \cup {a \o <<d, e>> : a \in LookupAreas, d \in Digits, e \in Digits}

\* postcodes, as typed: with or without a space in front
LookupPostcodes ==
    {pad \o out \o <<" ", "7", "E", "H">> :
        pad \in {<<>>, <<" ">>}, out \in LookupOutwards}

CheckArticle4 ==
    /\ lookup = None
    /\ lookup' = Some(check_article_4(postcode_asked))
    /\ UNCHANGED postcode_asked
    /\ UNCHANGED <<orch_vars, scraper_vars, extract_vars, playwright_vars, cache_vars>>

NextLookup == CheckArticle4

InitLookup ==
    /\ NoRequests
    /\ NoExtraction
    /\ NoBrowser /\ NoPropertyData
    /\ AfterConstruction({}, 0, {})
    /\ postcode_asked \in LookupPostcodes
    /\ lookup = None

SpecLookup == InitLookup /\ [][NextLookup]_vars

(***************************************************************************)
(* PropertyDataAPI._make_request and the cache of the instance             *)
(***************************************************************************)
\* the last day of the clock
MaxDay == 8

\* timedelta(days=7)
cache_duration == 7

\* what the API answers: a document, or a failure of the request (an error
\* status included), or a body that is no JSON
ApiOutcomes ==
    {[kind |-> "json", data |-> [data |-> "figures"]],
     [kind |-> "json", data |-> [data |-> "new figures"]],
     [kind |-> "RequestException"], [kind |-> "JSONDecodeError"]}

ApiError(msg) == [error |-> msg]

\* _make_request(endpoint, params), where the API would answer with outcome
MakeRequest_fresh_on_the_last_day(call, outcome) ==
    LET k == cache_key(call, IF api_key = None THEN "" ELSE api_key[1])
        did(request_sent, result) ==
            [key |-> k, at |-> today, before |-> cache, sent |-> request_sent,
             outcome |-> IF request_sent THEN Some(outcome) ELSE None, returned |-> result]
    IN  /\ IF api_key = None
           THEN /\ last_call' = Some(did(FALSE, ApiError("API key not configured")))
                /\ UNCHANGED cache
           ELSE IF cache[k] # None /\ today - cache[k][1].time <= cache_duration
           THEN /\ last_call' = Some(did(FALSE, cache[k][1].data))
                /\ UNCHANGED cache
           ELSE IF outcome.kind = "json"
           THEN /\ cache' = [cache EXCEPT ![k] = Some([data |-> outcome.data,
                                                       time |-> today])]
                /\ last_call' = Some(did(TRUE, outcome.data))
           ELSE /\ last_call' = Some(did(TRUE,
                                        IF outcome.kind = "RequestException"
                                        THEN ApiError("API request failed")
                                        ELSE ApiError("Invalid JSON response")))
                /\ UNCHANGED cache
        /\ UNCHANGED <<api_key, today>>
        /\ UNCHANGED <<orch_vars, scraper_vars, extract_vars, playwright_vars,
                       lookup_vars>>

\* _make_request(endpoint, params), where the API would answer with outcome
MakeRequest(call, outcome) ==
    LET k == cache_key(call, IF api_key = None THEN "" ELSE api_key[1])
        did(request_sent, result) ==
            [key |-> k, at |-> today, before |-> cache, sent |-> request_sent,
             outcome |-> IF request_sent THEN Some(outcome) ELSE None, returned |-> result]
    IN  /\ IF api_key = None
           THEN /\ last_call' = Some(did(FALSE, ApiError("API key not configured")))
                /\ UNCHANGED cache
           ELSE IF cache[k] # None /\ today - cache[k][1].time < cache_duration
           THEN /\ last_call' = Some(did(FALSE, cache[k][1].data))
                /\ UNCHANGED cache
           ELSE IF outcome.kind = "json"
           THEN /\ cache' = [cache EXCEPT ![k] = Some([data |-> outcome.data,
                                                       time |-> today])]
                /\ last_call' = Some(did(TRUE, outcome.data))
           ELSE /\ last_call' = Some(did(TRUE,
                                        IF outcome.kind = "RequestException"
                                        THEN ApiError("API request failed")
                                        ELSE ApiError("Invalid JSON response")))
                /\ UNCHANGED cache
        /\ UNCHANGED <<api_key, today>>
        /\ UNCHANGED <<orch_vars, scraper_vars, extract_vars, playwright_vars,
                       lookup_vars>>

\* a day passes
NextDay ==
    /\ today < MaxDay
    /\ today' = today + 1
    /\ UNCHANGED <<api_key, cache, last_call>>
    /\ UNCHANGED <<orch_vars, scraper_vars, extract_vars, playwright_vars, lookup_vars>>

NextCache ==
    \/ \E call \in ApiCalls, outcome \in ApiOutcomes : MakeRequest(call, outcome)
    \/ NextDay

InitCache ==
    /\ NoRequests
    /\ NoExtraction
    /\ NoBrowser /\ NoLookup
    /\ AfterConstruction({}, 0, {})
    /\ api_key \in {None, Some("key")}
    /\ cache = EmptyCache
    /\ today = 0
    /\ last_call = None

SpecCache == InitCache /\ [][NextCache]_vars

(***************************************************************************)
(* Properties                                                              *)
(***************************************************************************)
Keys == {"address", "postcode", "price", "property_type", "bedrooms", "description"}

Other(t) == IF t = "jina" THEN "basic" ELSE "jina"

\* the result the loop has stored for a backend
Result(r, t) == IF t = "jina" THEN jina_result[r] ELSE basic_result[r]

\* a field holds a value: not the placeholder of an address, and not a price
\* of zero, which is no price
Resolved(k, v) ==
    /\ v # None
    /\ (k = "address" => v # Some(AddressNotAvailable))
    /\ (k = "price" => v # Some(0))

\* the fields a record resolves, with their values
ResolvedFields(d) ==
    IF d = None THEN {}
    ELSE {<<k, d[1][k]>> : k \in {f \in Keys : Resolved(f, d[1][f])}}

HasPriceOrAddress(d) ==
    /\ d # None
    /\ (Resolved("price", d[1].price) \/ Resolved("address", d[1].address))

\* the backend call of a request ended in a fetch-level failure: nothing
\* fetched (None, or the record of a failed fetch), an exception, or no end
\* before the loop was over
FetchFailed(r, t) ==
    \/ TaskOf(r, t).kind = "raise"
    \/ TaskOf(r, t).val = None
    \/ TaskOf(r, t).val = Some(FetchFailedRecord)
    \/ t \in late[r]

\* C1: when every backend of a request fails at the fetch level, the response
\* differs from the response to a request for which a backend fetched a page
\* and no field was resolved
C1_TotalFailureIsDistinct ==
    \A r1 \in runs, r2 \in runs :
        (/\ pc[r1] = "Done" /\ pc[r2] = "Done"
         /\ \A t \in Tasks : FetchFailed(r1, t)
         /\ \E t \in Tasks : ~FetchFailed(r2, t) /\ Result(r2, t) # None
         /\ \A t \in Tasks : ResolvedFields(Result(r2, t)) = {})
        => response[r1] # response[r2]

\* a backend call of a request returned a fetch-level failure value
ReturnedFailure(r, t) ==
    /\ TaskOf(r, t).kind = "return"
    /\ TaskOf(r, t).val \in {None, Some(FetchFailedRecord)}

\* the loop has stored the record of a fetched page for a backend
StoredRecord(r, t) == Result(r, t) # None /\ Result(r, t) # Some(FetchFailedRecord)

\* C2 as claimed: when one backend fails at the fetch level and the other
\* returns a record, the merged output holds exactly the resolved fields of
\* that record
C2_MergedIsTheOtherRecord ==
    \A r \in runs : \A t \in Tasks :
        (pc[r] = "Done" /\ ReturnedFailure(r, t) /\ StoredRecord(r, Other(t)))
        => ResolvedFields(extracted_data[r]) = ResolvedFields(Result(r, Other(t)))

\* C2 as amended: when one backend fails at the fetch level and the other
\* returns a record, the merged output is exactly that record if it has a
\* price or an address, and there is no merged output if it has neither
C2_MergedIsTheOtherRecordWithData ==
    \A r \in runs : \A t \in Tasks :
        (pc[r] = "Done" /\ ReturnedFailure(r, t) /\ StoredRecord(r, Other(t)))
        => IF HasPriceOrAddress(Result(r, Other(t)))
           THEN extracted_data[r] = Result(r, Other(t))
           ELSE extracted_data[r] = None

\* the direct backend failed, the reader proxy returned a record with a
\* price, and the request is answered
C2_Witness ==
    \E r \in runs :
        /\ pc[r] = "Done"
        /\ ReturnedFailure(r, "basic")
        /\ StoredRecord(r, "jina")
        /\ jina_result[r][1].price # None
        /\ response[r][1].success

\* the value of a field after a merge by precedence: the reader proxy first,
\* then the direct backend
ByPrecedence(r, k) ==
    IF Resolved(k, jina_result[r][1][k]) THEN jina_result[r][1][k]
    ELSE IF Resolved(k, basic_result[r][1][k]) THEN basic_result[r][1][k]
    ELSE None

\* C3: for two completed records, every field of the merged record is the
\* value of the highest-precedence backend that resolved it
C3_MergePrecedence ==
    \A r \in runs :
        (pc[r] = "Done" /\ StoredRecord(r, "jina") /\ StoredRecord(r, "basic"))
        => \A k \in Keys :
              LET merged == IF extracted_data[r] = None THEN None
                            ELSE extracted_data[r][1][k]
              IN  (IF Resolved(k, merged) THEN merged ELSE None) = ByPrecedence(r, k)

\* C4: the response is a success exactly when the merged record has a price
\* or an address other than the placeholder, which is exactly when a stored
\* record has one; a success carries the merged record, and every other
\* response is the failure that asks for manual entry
C4_SuccessIffPriceOrAddress ==
    \A r \in runs :
        pc[r] = "Done" =>
            /\ response[r][1].success <=> HasPriceOrAddress(extracted_data[r])
            /\ response[r][1].success <=>
                  \E t \in Tasks : HasPriceOrAddress(Result(r, t))
            /\ response[r][1].success => response[r][1].data = extracted_data[r]
            /\ ~response[r][1].success => response[r][1] = Failure

\* a record with a postcode and bedrooms, and neither price nor address, is
\* answered as a failure
C4_Witness ==
    \E r \in runs :
        /\ pc[r] = "Done"
        /\ ~response[r][1].success
        /\ StoredRecord(r, "basic")
        /\ basic_result[r][1].postcode # None
        /\ basic_result[r][1].bedrooms # None

\* C5: two requests whose backends do the same, and complete inside the race,
\* have the same merged record
C5_MergeIsDeterministic ==
    \A r1 \in runs, r2 \in runs :
        (/\ pc[r1] = "Done" /\ pc[r2] = "Done"
         /\ jina_task[r1] = jina_task[r2]
         /\ basic_task[r1] = basic_task[r2]
         /\ late[r1] = {} /\ late[r2] = {})
        => extracted_data[r1] = extracted_data[r2]

\* C6: when the deadline expires before any backend has completed, nothing
\* keeps extract_url from leaving the pool and responding: it does not wait
\* for the tasks that are still running
C6_NoWaitPastDeadline ==
    \A r \in runs :
        (pc[r] = "Closing" /\ loop_exit[r] = "timeout" /\ yielded[r] = {})
        => ENABLED ClosePool(r)

\* C7: when a backend call fails, also by raising, and the other call has
\* ended inside the race with a record that has a price or an address, that
\* record is in the merged output, whichever ended first
C7_FailureIsIsolated ==
    \A r \in runs : \A t \in Tasks :
        (/\ pc[r] = "Done"
         /\ (ReturnedFailure(r, t) \/ TaskOf(r, t).kind = "raise")
         /\ Other(t) \notin late[r]
         /\ TaskOf(r, Other(t)).kind = "return"
         /\ HasPriceOrAddress(TaskOf(r, Other(t)).val))
        => extracted_data[r] = TaskOf(r, Other(t)).val

\* C8: a task that ends after the deadline has expired gives nothing to the
\* merged record: its result is never stored, and the merged record and the
\* data of the response are those of the other backend alone, or empty
C8_LateResultsDiscarded ==
    \A r \in runs : \A t \in late[r] :
        /\ Result(r, t) = None
        /\ extracted_data[r] \in {None, Result(r, Other(t))}
        /\ response[r] # None => response[r][1].data \in {None, Result(r, Other(t))}

\* the reader proxy ends after the deadline with a record that has a price,
\* and the response carries the record of the direct backend
C8_Witness ==
    \E r \in runs :
        /\ pc[r] = "Done"
        /\ loop_exit[r] = "timeout"
        /\ "jina" \in late[r]
        /\ HasPriceOrAddress(jina_task[r].val)
        /\ response[r][1].success
        /\ jina_task[r].val # basic_task[r].val

\* C9: the postcode of the merged record is never a string whose leading
\* letters are not a postcode area
C9_PostcodeHardFilter ==
    \A r \in runs :
        (extracted_data[r] # None /\ extracted_data[r][1].postcode # None)
        => is_valid_area(extracted_data[r][1].postcode[1])

\* C10: the bedrooms of the merged record are empty or within [1, 20]
C10_BedroomBound ==
    \A r \in runs :
        (extracted_data[r] # None /\ extracted_data[r][1].bedrooms # None)
        => BedInRange(extracted_data[r][1].bedrooms[1])

\* C11: the address of a record returned to the caller is never the
\* placeholder: when no address rule matched, the field is empty
C11_AddressNeverGuessed ==
    \A r \in runs :
        (response[r] # None /\ response[r][1].success)
        => response[r][1].data[1].address # Some(AddressNotAvailable)

\* C12: whatever the interleaving of the threads that share an instance, any
\* two passages of the gate _rate_limit are at least min_delay apart, and so
\* are the requests that follow them
C12_GateIsSerialized ==
    /\ \A i \in 1..Len(gate_log) : \A j \in 1..Len(gate_log) :
          i < j => gate_log[j].at - gate_log[i].at >= Ticks(min_delay)
    /\ \A i \in 1..Len(request_log) : \A j \in 1..Len(request_log) :
          i < j => request_log[j].at - request_log[i].at >= Ticks(min_delay)

\* fetch found a block signature in the body of a successful response
BlockDetected(ans) ==
    /\ ans.kind = "response"
    /\ ~RaisesForStatus(ans.status)
    /\ AdaptiveBlocked(ans.text)

\* a network error, an HTTP error status, or a response without a body, which
\* is counted with the transient errors
RetryableError(ans) ==
    \/ ans.kind = "exception"
    \/ ans.kind = "response" /\ RaisesForStatus(ans.status)
    \/ ans.kind = "response" /\ ans.text = <<>>

\* the answer to the attempt before the one of a request
AnswerBefore(req) ==
    {e.answer : e \in {fetch_log[j] : j \in {k \in 1..Len(fetch_log) :
                          /\ fetch_log[k].who = req.who
                          /\ fetch_log[k].call = req.call
                          /\ fetch_log[k].attempt = req.attempt - 1}}}

\* C13: extract_with_retry makes a second attempt only when the first failed
\* with a network error or an HTTP error, and none when the first attempt
\* detected a block signature
C13_NoRetryWhenBlocked ==
    \A i \in 1..Len(request_log) :
        request_log[i].attempt > 0 =>
            \A ans \in AnswerBefore(request_log[i]) :
                RetryableError(ans) /\ ~BlockDetected(ans)

\* the words of an agency or contact section, and those of a listing
AgencyKeywords ==
    {"estate agent", "branch", "contact us", "tel:", "phone", "call us", "our office"}
ListingKeywords == {"price", "£", "bedroom", "bed"}

\* the positions of a text at which the postcode fp is written
Occurrences(text, fp) ==
    {i \in PostcodePositions(text) : format_postcode(text[i].pc) = fp}

\* the valid postcodes of a text, in their normal form
ValidPostcodes(text) ==
    {format_postcode(text[i].pc) :
        i \in {j \in PostcodePositions(text) : valid_pc(format_postcode(text[j].pc))}}

\* every occurrence of fp is near an agency word and none is near a word of
\* the listing
IsAgentPostcode(text, fp) ==
    \A i \in Occurrences(text, fp) :
        /\ AnyIn(AgencyKeywords, Context(text, i))
        /\ ~AnyIn(ListingKeywords, Context(text, i))

\* an occurrence of fp is near a word of the listing and none is near an
\* agency word
IsListingPostcode(text, fp) ==
    /\ \E i \in Occurrences(text, fp) : AnyIn(ListingKeywords, Context(text, i))
    /\ \A i \in Occurrences(text, fp) : ~AnyIn(AgencyKeywords, Context(text, i))

\* the postcode a content with an agent postcode and a listing postcode must
\* resolve to: the listing postcode
MustResolveTo(text) ==
    {y \in ValidPostcodes(text) :
        \E x \in ValidPostcodes(text) :
            /\ ValidPostcodes(text) = {x, y}
            /\ x # y
            /\ IsAgentPostcode(text, x)
            /\ IsListingPostcode(text, y)}

\* C14: of two valid postcodes, one near agency words only and one near the
\* price or the bedrooms, each resolver selects the latter, wherever the two
\* are in the document
C14_AgentPostcodeIsNotSelected ==
    \A y \in MustResolveTo(PageText(content)) :
        /\ jina_record # None => jina_record[1].postcode = Some(y)
        /\ basic_record # None => basic_record[1].postcode = Some(y)

\* the state of the orchestrator a request is in
Phase(r) ==
    CASE pc[r] \in {"Idle", "Submitting"} -> "Idle"
      [] pc[r] = "Racing" -> "Racing"
      [] pc[r] \in {"Merging", "Closing", "Responding"} -> "Merging"
      [] OTHER -> "Done"

\* in a state: no result is awaited before both tasks are submitted, the merge
\* has not started unless every backend has completed or the deadline has
\* expired, and no response is there before the request is done
C15_InOrder ==
    \A r \in runs :
        /\ Phase(r) # "Idle" => \A t \in Tasks : fut[r][t] # "none"
        /\ yielded[r] # {} => \A t \in Tasks : fut[r][t] # "none"
        /\ pc[r] = "Merging" =>
              \/ \A t \in Tasks : fut[r][t] = "finished"
              \/ loop_exit[r] = "timeout"
        /\ response[r] # None => pc[r] = "Done"
        /\ pc[r] = "Done" => response[r] # None

\* in a step: a request moves to the next state only, and a response, once
\* emitted, stays
C15_NextPhase ==
    \A r \in runs :
        /\ \/ Phase(r)' = Phase(r)
           \/ <<Phase(r), Phase(r)'>> \in
                 {<<"Idle", "Racing">>, <<"Racing", "Merging">>, <<"Merging", "Done">>}
        /\ response[r] # None => response'[r] = response[r]

\* C15: every request goes Idle, Racing, Merging, Done in that order; both
\* tasks are submitted before a result is awaited; the merge starts only when
\* every backend has completed or the deadline has expired; one response is
\* emitted, after the merge
C15_StateOrder == [](C15_InOrder) /\ [][C15_NextPhase]_vars

\* the backend whose future as_completed yielded first
FirstYielded(r) == finish_order[r][1]

\* C16 as claimed: once the first backend to finish has given a record with a
\* price or an address, the race is over: the orchestrator does not wait for
\* the other backend
C16_EarlyExit ==
    \A r \in runs :
        (/\ yielded[r] # {}
         /\ TaskOf(r, FirstYielded(r)).kind = "return"
         /\ HasPriceOrAddress(Result(r, FirstYielded(r))))
        => pc[r] # "Racing"

\* C16 as amended: the race has no early exit.  It ends when both futures have
\* been collected, when the deadline expires while a backend is running, or
\* when the future collected last raised; until then the orchestrator waits,
\* whatever the first result holds
C16_NoEarlyExit ==
    \A r \in runs :
        /\ Phase(r) \in {"Merging", "Done"} =>
              \/ loop_exit[r] = "exhausted" /\ yielded[r] = Tasks
              \/ loop_exit[r] = "timeout" /\ yielded[r] # Tasks
              \/ /\ loop_exit[r] = "exception"
                 /\ \E t \in yielded[r] : TaskOf(r, t).kind = "raise"
        /\ Phase(r) \in {"Idle", "Racing"} => loop_exit[r] = "none"
        /\ (pc[r] = "Racing" /\ yielded[r] # Tasks) =>
              ~ENABLED LoopExhausted(r) /\ ~ENABLED Merge(r)

\* the first backend to finish gave a record with a price or an address, the
\* other was waited for, and both records were collected
C16_Witness ==
    \E r \in runs :
        /\ pc[r] = "Done"
        /\ loop_exit[r] = "exhausted"
        /\ HasPriceOrAddress(Result(r, FirstYielded(r)))
        /\ Result(r, Other(FirstYielded(r))) # None

\* the structurally valid candidates of each resolver: the reader proxy's must
\* pass valid_pc, the direct backend's the grammar
JinaSurvivors(text) ==
    {i \in PostcodePositions(text) : valid_pc(format_postcode(text[i].pc))}
BasicSurvivors(html) ==
    {i \in PostcodePositions(html) :
        MatchesGrammar(format_postcode(html[i].pc), Whitespace, FALSE)}

\* C17: each resolver returns a postcode whenever a structurally valid
\* candidate exists, also when every candidate scored negative, and leaves
\* the field empty only when there is none
C17_BestEffortPostcode ==
    LET text == PageText(content)
    IN  /\ jina_record # None =>
              (jina_record[1].postcode # None <=> JinaSurvivors(text) # {})
        /\ basic_record # None =>
              (basic_record[1].postcode # None <=> BasicSurvivors(text) # {})

\* the keywords each scorer rewards and those it penalises
JinaPositive ==
    {"price", "£", "for sale", "asking", "bedroom", "bed", "house", "flat",
     "property", "road", "street", "avenue", "lane", "drive", "close",
     "address", "postcode"}
JinaNegative ==
    {"estate agent", "branch", "contact us", "tel:", "phone", "call us",
     "our office", "agent address", "agent postcode", "branch address",
     "office address", "vat", "registration", "company number"}

\* every occurrence of fp is near a word of neg and near no word of pos
OnlyNearNegative(text, fp, neg, pos) ==
    \A i \in Occurrences(text, fp) :
        AnyIn(neg, Context(text, i)) /\ ~AnyIn(pos, Context(text, i))

\* no occurrence of fp is near a word of either kind
NearNoKeyword(text, fp, neg, pos) ==
    \A i \in Occurrences(text, fp) : ~AnyIn(neg \cup pos, Context(text, i))

\* C18: in each scorer a candidate that is near agency, contact, VAT or
\* registration words only scores strictly lower than a candidate near no
\* keyword at all
C18_NegativeWeightsCount ==
    LET text == PageText(content)
    IN  /\ postcode_scores # None =>
              \A x \in DOMAIN postcode_scores[1], y \in DOMAIN postcode_scores[1] :
                  (/\ OnlyNearNegative(text, x, JinaNegative, JinaPositive)
                   /\ NearNoKeyword(text, y, JinaNegative, JinaPositive))
                  => postcode_scores[1][x] < postcode_scores[1][y]
        /\ seen # None =>
              \A x \in DOMAIN seen[1], y \in DOMAIN seen[1] :
                  (/\ OnlyNearNegative(text, x, AGENT_WORDS, {})
                   /\ NearNoKeyword(text, y, AGENT_WORDS, {}))
                  => seen[1][x] < seen[1][y]

\* the position at which the postcode fp is first written
FirstOccurrence(text, fp) == Min(Occurrences(text, fp))

\* the candidates that share the highest score
TheBest(scores) ==
    {fp \in DOMAIN scores : \A other \in DOMAIN scores : scores[other] <= scores[fp]}

\* of the candidates that share the highest score, the one written first
EarliestOfTheBest(text, scores) ==
    CHOOSE fp \in TheBest(scores) :
        \A other \in TheBest(scores) :
            FirstOccurrence(text, fp) <= FirstOccurrence(text, other)

\* C19: when several candidates of a scorer share the highest score, the
\* resolver selects the one whose first occurrence is the earliest in the
\* document
C19_TieBreakByPosition ==
    LET text == PageText(content)
    IN  /\ (jina_record # None /\ postcode_scores # None
               /\ Cardinality(TheBest(postcode_scores[1])) >= 2)
           => jina_record[1].postcode = Some(EarliestOfTheBest(text, postcode_scores[1]))
        /\ (basic_record # None /\ seen # None /\ Cardinality(TheBest(seen[1])) >= 2)
           => basic_record[1].postcode = Some(EarliestOfTheBest(text, seen[1]))

\* the price of a stored record is empty or above the plausibility floor
PlausiblePrice(result) ==
    result # None => (result[1].price = None \/ result[1].price[1] > PriceFloor)

\* C20: a currency amount that does not exceed the floor (10,000) is never
\* taken as the price: the price of every per-backend record and of the
\* merged record is empty or greater than 10,000
C20_PriceFloor ==
    \A r \in RunIds :
        /\ PlausiblePrice(jina_result[r])
        /\ PlausiblePrice(basic_result[r])
        /\ PlausiblePrice(extracted_data[r])

\* the type words a text mentions, as the patterns see them
Mentions(text) ==
    {IgnoreCase(text[i].w) :
        i \in {j \in 1..Len(text) : text[j].k = "word" /\ WordTypes(text[j].w) # {}}}

\* the only property type a text mentions is 'semi' or 'semi-detached'
OnlySemi(text) == Mentions(text) # {} /\ Mentions(text) \subseteq {"semi", "semi-detached"}

\* the property type of a record, where one was made
TypeOf(record) == IF record = None THEN None ELSE Some(record[1].property_type)

\* C21: for a text whose only property-type mention is 'semi' or
\* 'semi-detached', in any letter case, the property-type rule of each
\* extractor returns 'Semi-Detached'
C21_SemiIsSemiDetached ==
    OnlySemi(PageText(content))
        => /\ TypeOf(jina_record) \in {None, Some(Some("Semi-Detached"))}
           /\ TypeOf(basic_record) \in {None, Some(Some("Semi-Detached"))}
           /\ adaptive_type \in {None, Some(Some("Semi-Detached"))}

\* the values of the propertyType enum
PropertyTypeEnum ==
    {"Detached", "Semi-Detached", "Terraced", "Flat", "Bungalow", "Maisonette",
     "Townhouse", "Cottage", "Studio"}

\* a property type that is empty or a value of the enum
InTypeDomain(ptype) == ptype = None \/ ptype[1] \in PropertyTypeEnum

\* C22: the property type of every record an extractor makes, and of the
\* merged record, is empty or one of the nine values of the enum
C22_PropertyTypeDomain ==
    /\ jina_record # None => InTypeDomain(jina_record[1].property_type)
    /\ basic_record # None => InTypeDomain(basic_record[1].property_type)
    /\ adaptive_type # None => InTypeDomain(adaptive_type[1])
    /\ \A r \in RunIds :
           extracted_data[r] # None => InTypeDomain(extracted_data[r][1].property_type)

\* the valid bedroom counts written in a stretch of tokens
ValidCounts(toks) ==
    {toks[i].n : i \in {j \in 1..Len(toks) : toks[j].k = "bed" /\ BedInRange(toks[j].n)}}

\* C23: when a valid bedroom count occurs in the title line and a different
\* valid count occurs in the body, scrape_with_jina selects the count of the
\* title, also when the count of the body is followed by a type word
C23_TitleOutranksBody ==
    (/\ jina_record # None
     /\ ValidCounts(content.title) # {}
     /\ ValidCounts(content.body) \ ValidCounts(content.title) # {})
        => /\ jina_record[1].bedrooms # None
           /\ jina_record[1].bedrooms[1] \in ValidCounts(content.title)

\* outward code, exactly one space, a digit and two letters
NormalForm(fp) == MatchesGrammar(fp, {" "}, FALSE)

\* a postcode field that is empty or holds a postcode in normal form, which
\* normalizing again leaves as it is
EmptyOrNormal(postcode) ==
    postcode = None
    \/ (NormalForm(postcode[1]) /\ format_postcode(postcode[1]) = postcode[1])

\* C24: every postcode placed in the record of a backend or in the merged
\* record is in normal form: a candidate found without the space has it
\* inserted before its last three characters, and normalizing a normalized
\* postcode changes nothing
C24_PostcodeNormalForm ==
    /\ jina_record # None => EmptyOrNormal(jina_record[1].postcode)
    /\ basic_record # None => EmptyOrNormal(basic_record[1].postcode)
    /\ \A r \in RunIds :
           extracted_data[r] # None => EmptyOrNormal(extracted_data[r][1].postcode)

\* the time of the last passage through the gate, as the instance has it
LastPassage == IF gate_log = <<>> THEN 0 ELSE gate_log[Len(gate_log)].at

\* C25: the requests of consecutive calls of one thread on one instance are
\* issued at least min_delay apart; _rate_limit sleeps only when less than
\* min_delay has passed since the last passage; last_request_time never
\* decreases
C25_SequentialSpacing ==
    /\ \A i \in 1..(Len(request_log) - 1) :
           request_log[i + 1].at - request_log[i].at >= Ticks(min_delay)
    /\ \A i \in 1..Len(sleep_log) :
           sleep_log[i].in = "_rate_limit"
               => \E g \in 1..Len(gate_log) :
                      /\ gate_log[g].at <= sleep_log[i].at
                      /\ sleep_log[i].at - gate_log[g].at < Ticks(min_delay)
    /\ last_request_time = LastPassage
    /\ \A i \in 1..(Len(gate_log) - 1) : gate_log[i].at <= gate_log[i + 1].at

\* a second call made right after the first has slept in _rate_limit and
\* sent its request min_delay after the first
C25_Witness ==
    /\ Len(request_log) >= 2
    /\ request_log[2].call = 2
    /\ request_log[2].at - request_log[1].at = Ticks(min_delay)
    /\ \E i \in 1..Len(sleep_log) : sleep_log[i].in = "_rate_limit"

\* the answer is a page with a successful status that holds none of the
\* signatures, in any letter case
CleanPage(sigs) ==
    /\ answer.kind = "response"
    /\ answer.status \in 200..299
    /\ ~ \E i \in 1..Len(answer.text) : Lower(answer.text[i]) \in sigs

\* what a fetch is to return: the body of a clean page, None for anything else
ToReturn(sigs) == IF CleanPage(sigs) THEN Returns(Some(answer.text)) ELSE Returns(None)

\* C26: the fetch of each direct backend returns the content only for a
\* successful status and a body without block signatures; for every other
\* answer, exceptions and timeouts included, it returns None and raises
\* nothing, and extract_property extracts fields from clean pages only
C26_BlockDetection ==
    /\ basic_html # None => basic_html[1] = ToReturn(ScraplingBlockSignatures)
    /\ adaptive_html # None => adaptive_html[1] = ToReturn({"captcha", "cloudflare"})
    /\ (basic_record # None /\ basic_record[1] # FetchFailedRecord)
           => /\ CleanPage(ScraplingBlockSignatures)
              /\ content = AsPage(answer.text)

\* a block page answered with status 200: both fetches returned None and
\* extract_property returned the record of a failed fetch
C26_Witness ==
    /\ answer = Response(200, <<"listing", "Captcha">>)
    /\ basic_html = Some(Returns(None))
    /\ adaptive_html = Some(Returns(None))
    /\ basic_record = Some(FetchFailedRecord)

\* the turns of the loop of the c-th call of thread t, where that call is one
\* of extract_with_retry, as positions of fetch_log
Attempts(t, c) ==
    {i \in 1..Len(fetch_log) :
        /\ fetch_log[i].who = t /\ fetch_log[i].call = c
        /\ fetch_log[i].entry = "extract_with_retry"}

\* the back-off sleeps of that call, as positions of sleep_log
BackOffs(t, c) ==
    {i \in 1..Len(sleep_log) :
        /\ sleep_log[i].who = t /\ sleep_log[i].call = c
        /\ sleep_log[i].in = "extract_with_retry"}

\* the c-th call of thread t has returned
Returned(t, c) == c < calls[t] \/ (c = calls[t] /\ where[t] = "idle")

\* C27: a call of extract_with_retry makes at most max_retries attempts and
\* none after an attempt that gave content; it sleeps 2 s after each failed
\* attempt but the last; it returns the content of the attempt that gave
\* some, and None once max_retries attempts have failed
C27_BoundedRetry ==
    \A t \in fetchers : \A c \in 1..calls[t] :
        LET A == Attempts(t, c)
            B == BackOffs(t, c)
            failed == {i \in A : ~HasContent(fetch_log[i].result)}
        IN  /\ Cardinality(A) <= max_retries
            /\ \A i \in A : fetch_log[i].attempt < max_retries
            /\ \A i, j \in A : i < j => i \in failed
            /\ Cardinality(B) = Cardinality({i \in failed :
                                                fetch_log[i].attempt < max_retries - 1})
            /\ \A i \in B : sleep_log[i].for = Ticks(2)
            /\ (A # {} /\ Returned(t, c))
                   => \/ Max(A) \notin failed
                      \/ Cardinality(A) = max_retries
            /\ (A # {} /\ c = calls[t] /\ where[t] = "idle")
                   => returned[t] = IF Max(A) \in failed THEN None
                                    ELSE fetch_log[Max(A)].result

\* a call of extract_with_retry whose first attempt failed and whose second
\* attempt gave the content it returned
C27_Witness ==
    \E t \in fetchers :
        /\ where[t] = "idle"
        /\ Cardinality(Attempts(t, calls[t])) = 2
        /\ Cardinality(BackOffs(t, calls[t])) = 1
        /\ HasContent(returned[t])

\* the site of the url is one of the protected ones
ProtectedSite == Lower(pw_url[2]) \in {"zoopla.co.uk", "primelocation.com"}

\* the browser was tried and gave a document that is not empty
BrowserContent == "playwright" \in pw_fetches /\ HasContent(browser_gives)

\* the fallback was tried and its fetch gave content
FallbackContent ==
    /\ "fallback" \in pw_fetches
    /\ ScraplingFetch(pw_answer).kind = "return"
    /\ HasContent(ScraplingFetch(pw_answer).val)

\* C28: extract_property tries the browser only for a protected site and
\* only with Playwright available; the fallback fetch runs exactly when the
\* browser was not tried or gave no content; the method returned is
\* 'playwright' exactly when the content of the browser was used, 'fallback'
\* exactly when that of the fallback was, and 'failed', with an error and
\* six empty fields, exactly when neither gave content
C28_FallbackProtocol ==
    /\ "playwright" \in pw_fetches => ProtectedSite /\ playwright_available
    /\ pw_at \in {"extract", "returned"}
           => ("fallback" \in pw_fetches <=> ~BrowserContent)
    /\ pw_data # None
           => LET d == pw_data[1]
              IN  /\ d.method \in {"playwright", "fallback", "failed"}
                  /\ d.method = "playwright" <=> BrowserContent
                  /\ d.method = "playwright" => pw_html = browser_gives
                  /\ d.method = "fallback" <=> (~BrowserContent /\ FallbackContent)
                  /\ d.method = "fallback" => pw_html = Some(pw_answer.text)
                  /\ d.method = "failed" <=> (~BrowserContent /\ ~FallbackContent)
                  /\ d.method = "failed" => d = PlaywrightFailedRecord
                  /\ d.method # "failed" => d.error = None

\* a protected site whose browser timed out and whose fallback fetched the
\* page
C28_Witness ==
    /\ ProtectedSite
    /\ pw_fetches = {"playwright", "fallback"}
    /\ browser_gives = None
    /\ pw_data # None
    /\ pw_data[1].method = "fallback"
    /\ pw_data[1].price = None

\* the outward code of the postcode asked about: the part before the space
OutwardCode ==
    LET stripped == Strip(postcode_asked)
    IN  FirstWord([i \in 1..Len(stripped) |-> Upper(stripped[i])])

\* C29: check_article_4 returns known = True exactly when the outward code of
\* the postcode is a key of the table, with the 'active' flag of that entry;
\* for any other outward code it returns known = False, is_article_4 = False
\* and the 'status unconfirmed' note, never the status of another district
C29_UnknownIsExact ==
    lookup # None
        => LET answer_given == lookup[1]
           IN  /\ answer_given.known <=> OutwardCode \in Article4Keys
               /\ answer_given.known
                      => /\ answer_given.area_code = OutwardCode
                         /\ answer_given.is_article_4 = Article4Info(OutwardCode).active
               /\ OutwardCode \notin Article4Keys
                      => /\ ~answer_given.is_article_4
                         /\ answer_given.note = UnconfirmedNote

\* the results _make_request returns for a failure
IsErrorResult(data) == data \in {ApiError("API key not configured"),
                                ApiError("API request failed"),
                                ApiError("Invalid JSON response")}

\* the entry the last call matched, if the cache had one
MatchedEntry == last_call[1].before[last_call[1].key]

\* C30: the cache holds successful responses only; a call that matches an
\* entry younger than cache_duration (7 days) returns the cached data and
\* sends no request; a call that matches an expired entry sends a request
\* and, on success, replaces the entry; an error result changes no entry; a
\* call without an API key returns an error and leaves the cache alone
C30_CacheHoldsFreshSuccesses ==
    /\ \A k \in CacheKeys : cache[k] # None => ~IsErrorResult(cache[k][1].data)
    /\ last_call # None
           => LET c == last_call[1]
              IN  /\ api_key = None
                         => /\ ~c.sent
                            /\ c.returned = ApiError("API key not configured")
                            /\ cache = c.before
                  /\ (api_key # None /\ MatchedEntry # None
                          /\ c.at - MatchedEntry[1].time < 7)
                         => /\ ~c.sent
                            /\ c.returned = MatchedEntry[1].data
                            /\ cache = c.before
                  /\ (api_key # None /\ MatchedEntry # None
                          /\ c.at - MatchedEntry[1].time >= 7)
                         => /\ c.sent
                            /\ c.outcome[1].kind = "json"
                                   => /\ cache[c.key] = Some([data |-> c.outcome[1].data,
                                                              time |-> c.at])
                                      /\ c.returned = c.outcome[1].data
                  /\ IsErrorResult(c.returned) => cache = c.before
                  /\ \A k \in CacheKeys : k # c.key => cache[k] = c.before[k]

\* a call that matched an entry of seven days ago sent a request and put the
\* new answer in its place
C30_Witness ==
    /\ api_key # None
    /\ last_call # None
    /\ MatchedEntry # None
    /\ last_call[1].at - MatchedEntry[1].time = 7
    /\ last_call[1].sent
    /\ cache[last_call[1].key] # MatchedEntry
    /\ cache[last_call[1].key][1].time = last_call[1].at
====
